---- MODULE Spec2Model ----
(***************************************************************************)
(* Display server display (uspace/srv/hid/display/display.c).              *)
(*                                                                         *)
(* The display owns intrusive lists of clients, WM clients, seats,         *)
(* display devices, cursors and windows.  A list is modelled as the        *)
(* sequence of its members, head first; a member's link is in use exactly  *)
(* when the member occurs in some list.  Every entity carries a display    *)
(* back-reference, NULL when unset.  An operation is one action: the       *)
(* caller holds the display lock for the whole call.                       *)
(***************************************************************************)
EXTENDS Integers, Sequences, FiniteSets, TLC

(* ---- bounds ---------------------------------------------------------- *)
NumWindows == 3
NumWMClients == 2
NumClients == 1
NumSeats == 2
NumDdevs == 2
NumCursors == 1
\* outputs a cloning GC is followed up to (nothing ever removes an output)
MaxOutputs == 2
\* input device ids
NumIdevs == 2
\* largest coordinate of a position on the display
MaxCoord == 3
\* tasks that call into the display
NumTasks == 2
\* window additions and removals a run of the tasks is followed for
MaxEvents == 2

(* ---- program constants ----------------------------------------------- *)
\* number of stock cursors a display creates (dcurs_limit)
dcurs_limit == 1

NULL == 0
Displays == {1, 2}
Windows == 1..NumWindows
WMClients == 1..NumWMClients
Clients == 1..NumClients
Seats == 1..NumSeats
Ddevs == 1..NumDdevs
Tasks == 1..NumTasks
\* stock cursors of display d come first, client-created cursors after them
StockCursor(d, i) == (d - 1) * dcurs_limit + i
NumStock == Cardinality(Displays) * dcurs_limit
Cursors == 1..(NumStock + NumCursors)
ClientCursors == (NumStock + 1)..(NumStock + NumCursors)

EmptyRect == <<0, 0, 0, 0>>
\* geometries a display device may report (ddev->info.rect)
Rects == {EmptyRect, <<0, 0, 8, 6>>, <<0, 0, 4, 3>>}

VARIABLES
    disp_mem,        \* display record: "none" | "live" | "freed"
    bg_color,        \* disp->bg_color is allocated
    flags,           \* disp->flags has df_disp_double_buf
    cursor,          \* disp->cursor[]: the stock cursors
    lock,            \* disp->lock: the task that holds the mutex, or NULL
    pc,              \* where each task is in the operation it has called
    effects,         \* history: the additions and removals of windows, in
                     \* the order they took effect on the window lists
    posted,          \* history: the events posted to the WM clients
    clients, wmclients, seats, ddevs, cursors, windows,   \* disp-> lists
    client_display, wmclient_display, seat_display,
    ddev_display, cursor_display, wnd_display,            \* ->display
    wnd_flags,       \* wnd->flags has wndf_topmost
    wnd_rect,        \* wnd->rect, in window coordinates
    wnd_dpos,        \* wnd->dpos: the window's position on the display
    rect,            \* disp->rect
    fbgc,            \* disp->fbgc: outputs of the cloning GC, <<>> when NULL
    backbuf,         \* disp->backbuf != NULL
    bbgc,            \* disp->bbgc != NULL
    dirty_rect,      \* disp->dirty_rect
    drawn,           \* history: the rectangles the back buffer's context
                     \* reported since the dirty rectangle was last zeroed
    calls,           \* collaborator calls issued by the last operation
    op,              \* the last operation and its result
    fault            \* "none" | "assert" (failed assertion) | "segv"

lists == <<clients, wmclients, seats, ddevs, cursors, windows>>
backrefs == <<client_display, wmclient_display, seat_display,
              ddev_display, cursor_display, wnd_display>>
taskvars == <<pc, effects, posted>>
\* the display record and its mutex, with the tasks that go through it
dispvars == <<disp_mem, bg_color, flags, cursor, lock, taskvars>>
gfxvars == <<rect, fbgc, backbuf, bbgc, dirty_rect, drawn>>
wndvars == <<wnd_flags, wnd_rect, wnd_dpos>>
vars == <<disp_mem, bg_color, flags, cursor, lock, pc, effects, posted,
          clients, wmclients, seats, ddevs, cursors, windows,
          client_display, wmclient_display, seat_display,
          ddev_display, cursor_display, wnd_display,
          wnd_flags, wnd_rect, wnd_dpos,
          rect, fbgc, backbuf, bbgc, dirty_rect, drawn,
          calls, op, fault>>

(* ---- sequences as lists ---------------------------------------------- *)
Range(s) == {s[i] : i \in 1..Len(s)}
IndexOf(s, x) == CHOOSE i \in 1..Len(s) : s[i] = x
Without(s, x) == SelectSeq(s, LAMBDA y : y # x)
InsertAt(s, i, x) == SubSeq(s, 1, i - 1) \o <<x>> \o SubSeq(s, i, Len(s))

\* link_used(&x->link): the link is in some list
link_used(ls, x) == \E d \in Displays : x \in Range(ls[d])

list_append(x, l) == Append(l, x)
list_prepend(x, l) == <<x>> \o l
\* list_insert_before(x, y): x goes right in front of y
list_insert_before(x, y, l) == InsertAt(l, IndexOf(l, y), x)
\* list_remove unlinks a linked item and leaves an unlinked one alone
list_remove(x, l) == Without(l, x)
\* list_empty compares head.next with the head itself: a zeroed
\* (never initialized) head is not empty
list_empty(l, initialized) == initialized /\ l = <<>>
list_first(l) == IF l = <<>> THEN NULL ELSE l[1]
list_last(l) == IF l = <<>> THEN NULL ELSE l[Len(l)]
list_next(x, l) == IF IndexOf(l, x) = Len(l) THEN NULL ELSE l[IndexOf(l, x) + 1]
list_prev(x, l) == IF IndexOf(l, x) = 1 THEN NULL ELSE l[IndexOf(l, x) - 1]

\* gfx_rect_is_empty
gfx_rect_is_empty(r) == r[1] = r[3] \/ r[2] = r[4]

(* ---- operation records ----------------------------------------------- *)
Op(name, d, e, res) == [name |-> name, disp |-> d, ent |-> e, res |-> res]

\* a failed assertion aborts the task inside the named operation: nothing
\* else changes, nothing runs after
Abort(name) ==
    /\ fault' = "assert"
    /\ op' = Op(name, NULL, NULL, "abort")
    /\ calls' = <<>>
    /\ UNCHANGED <<dispvars, lists, backrefs, wndvars, gfxvars>>

Running == fault = "none"
Live(d) == disp_mem[d] = "live"
\* the callers never pass an entity whose display record has been freed
Usable(ref) == IF ref = NULL THEN TRUE ELSE Live(ref)

(* ---- iteration over the display's lists ------------------------------ *)
ds_display_first_client(cl, d) == list_first(cl[d])
ds_display_next_client(cl, cd, c) == list_next(c, cl[cd[c]])
ds_display_first_wmclient(wl, d) == list_first(wl[d])
ds_display_next_wmclient(wl, wmd, wm) == list_next(wm, wl[wmd[wm]])
ds_display_first_window(ws, d) == list_first(ws[d])
ds_display_last_window(ws, d) == list_last(ws[d])
ds_display_next_window(ws, wd, w) == list_next(w, ws[wd[w]])
ds_display_prev_window(ws, wd, w) == list_prev(w, ws[wd[w]])
ds_display_first_seat(sl, d) == list_first(sl[d])
ds_display_next_seat(sl, sd, s) == list_next(s, sl[sd[s]])

(* ---- window registry -------------------------------------------------- *)
\* while (w != NULL && (w->flags & wndf_topmost) != 0) w = next(w)
RECURSIVE FirstNonTopmost(_, _, _)
FirstNonTopmost(ws, wd, w) ==
    IF w # NULL /\ wnd_flags[w]
    THEN FirstNonTopmost(ws, wd, ds_display_next_window(ws, wd, w))
    ELSE w

\* the two assertions at the head of ds_display_enlist_window
EnlistAsserts(ws, wd, display, wnd) ==
    wd[wnd] = display /\ ~link_used(ws, wnd)

\* mutant: a non-topmost window is put at the head like a topmost one
ds_display_enlist_window_front(ws, wd, display, wnd) ==
    [ws EXCEPT ![display] = list_prepend(wnd, @)]

\* mutant: a topmost window is put behind the topmost windows already there
ds_display_enlist_window_class(ws, wd, display, wnd) ==
    LET w == FirstNonTopmost(ws, wd, ds_display_first_window(ws, display))
    IN  IF w # NULL
        THEN [ws EXCEPT ![display] = list_insert_before(wnd, w, @)]
        ELSE [ws EXCEPT ![display] = list_append(wnd, @)]

\* mutant: a non-topmost window is put behind the first non-topmost one
ds_display_enlist_window_behind(ws, wd, display, wnd) ==
    IF ~wnd_flags[wnd]
    THEN LET w == FirstNonTopmost(ws, wd, ds_display_first_window(ws, display))
         IN  IF w # NULL /\ ds_display_next_window(ws, wd, w) # NULL
             THEN [ws EXCEPT ![display] =
                      list_insert_before(wnd, ds_display_next_window(ws, wd, w), @)]
             ELSE [ws EXCEPT ![display] = list_append(wnd, @)]
    ELSE [ws EXCEPT ![display] = list_prepend(wnd, @)]

\* mutant: a non-topmost window is put at the tail, behind the others
ds_display_enlist_window_back(ws, wd, display, wnd) ==
    IF ~wnd_flags[wnd]
    THEN [ws EXCEPT ![display] = list_append(wnd, @)]
    ELSE [ws EXCEPT ![display] = list_prepend(wnd, @)]

\* the window lists after enlisting wnd in display
ds_display_enlist_window(ws, wd, display, wnd) ==
    IF ~wnd_flags[wnd]
    THEN LET w == FirstNonTopmost(ws, wd, ds_display_first_window(ws, display))
         IN  IF w # NULL
             THEN [ws EXCEPT ![display] = list_insert_before(wnd, w, @)]
             ELSE [ws EXCEPT ![display] = list_append(wnd, @)]
    ELSE [ws EXCEPT ![display] = list_prepend(wnd, @)]

\* one ds_wmclient_post_wnd_*_event call; listed and wdisp record what the
\* window's link and back-reference are when the call is made
PostEvent(fn, wm, wnd, ws, wd) ==
    [fn |-> fn, wmclient |-> wm, id |-> wnd,
     listed |-> link_used(ws, wnd), wdisp |-> wd[wnd]]

\* wmclient = first; while (wmclient != NULL) { post; wmclient = next; }
RECURSIVE NotifyLoop(_, _, _, _, _)
NotifyLoop(fn, wm, wnd, ws, wd) ==
    IF wm = NULL THEN <<>>
    ELSE <<PostEvent(fn, wm, wnd, ws, wd)>> \o
         NotifyLoop(fn, ds_display_next_wmclient(wmclients, wmclient_display, wm),
                    wnd, ws, wd)

\* mutant: the WM clients are notified before the window is enlisted
ds_display_add_window_early(display, wnd) ==
    /\ Running /\ Live(display) /\ Usable(wnd_display[wnd])
    /\ IF wnd_display[wnd] # NULL \/ link_used(windows, wnd)
       THEN Abort("add_window")
       ELSE LET wd == [wnd_display EXCEPT ![wnd] = display]
                ws == ds_display_enlist_window(windows, wd, display, wnd)
            IN  /\ wnd_display' = wd
                /\ windows' = ws
                /\ calls' = NotifyLoop("wnd_added",
                       ds_display_first_wmclient(wmclients, display), wnd, windows, wd)
                /\ op' = Op("add_window", display, wnd, "ok")
                /\ UNCHANGED <<dispvars, clients, wmclients, seats, ddevs, cursors,
                       client_display, wmclient_display, seat_display,
                       ddev_display, cursor_display, wndvars, gfxvars, fault>>

ds_display_add_window(display, wnd) ==
    /\ Running /\ Live(display) /\ Usable(wnd_display[wnd])
    /\ IF wnd_display[wnd] # NULL \/ link_used(windows, wnd)
       THEN Abort("add_window")
       ELSE LET wd == [wnd_display EXCEPT ![wnd] = display]
                ws == ds_display_enlist_window(windows, wd, display, wnd)
            IN  /\ EnlistAsserts(windows, wd, display, wnd)
                /\ wnd_display' = wd
                /\ windows' = ws
                /\ calls' = NotifyLoop("wnd_added",
                       ds_display_first_wmclient(wmclients, display), wnd, ws, wd)
                /\ op' = Op("add_window", display, wnd, "ok")
                /\ UNCHANGED <<dispvars, clients, wmclients, seats, ddevs, cursors,
                       client_display, wmclient_display, seat_display,
                       ddev_display, cursor_display, wndvars, gfxvars, fault>>

\* mutant: the back-reference is cleared but the link stays in the list
ds_display_remove_window_keep(wnd) ==
    /\ Running /\ Usable(wnd_display[wnd])
    /\ wnd_display[wnd] # NULL
    /\ wnd_display' = [wnd_display EXCEPT ![wnd] = NULL]
    /\ calls' = NotifyLoop("wnd_removed",
           ds_display_first_wmclient(wmclients, wnd_display[wnd]), wnd, windows,
           [wnd_display EXCEPT ![wnd] = NULL])
    /\ op' = Op("remove_window", wnd_display[wnd], wnd, "ok")
    /\ UNCHANGED <<dispvars, lists, client_display, wmclient_display, seat_display,
           ddev_display, cursor_display, wndvars, gfxvars, fault>>

\* mutant: only the first WM client is notified
ds_display_remove_window_first(wnd) ==
    /\ Running /\ Usable(wnd_display[wnd])
    /\ wnd_display[wnd] # NULL
    /\ LET display == wnd_display[wnd]
           ws == [d \in Displays |-> list_remove(wnd, windows[d])]
           wd == [wnd_display EXCEPT ![wnd] = NULL]
           wm == ds_display_first_wmclient(wmclients, display)
       IN  /\ windows' = ws
           /\ wnd_display' = wd
           /\ calls' = IF wm = NULL THEN <<>>
                       ELSE <<PostEvent("wnd_removed", wm, wnd, ws, wd)>>
           /\ op' = Op("remove_window", display, wnd, "ok")
           /\ UNCHANGED <<dispvars, clients, wmclients, seats, ddevs, cursors,
                  client_display, wmclient_display, seat_display,
                  ddev_display, cursor_display, wndvars, gfxvars, fault>>

\* ds_display_first_wmclient(NULL) reads through a null display pointer:
\* the task is killed by the fault, or the read yields a null link and the
\* loop body never runs
ds_display_remove_window(wnd) ==
    /\ Running /\ Usable(wnd_display[wnd])
    /\ LET display == wnd_display[wnd]
           ws == [d \in Displays |-> list_remove(wnd, windows[d])]
           wd == [wnd_display EXCEPT ![wnd] = NULL]
       IN  /\ windows' = ws
           /\ wnd_display' = wd
           /\ IF display # NULL
              THEN /\ calls' = NotifyLoop("wnd_removed",
                          ds_display_first_wmclient(wmclients, display), wnd, ws, wd)
                   /\ op' = Op("remove_window", display, wnd, "ok")
                   /\ fault' = fault
              ELSE /\ calls' = <<>>
                   /\ \E outcome \in {"segv", "ok"} :
                         /\ op' = Op("remove_window", NULL, wnd, outcome)
                         /\ fault' = IF outcome = "segv" THEN "segv" ELSE fault
           /\ UNCHANGED <<dispvars, clients, wmclients, seats, ddevs, cursors,
                  client_display, wmclient_display, seat_display,
                  ddev_display, cursor_display, wndvars, gfxvars>>

\* mutant: the windows left behind are put in the opposite order
ds_display_window_to_top_shuffle(wnd) ==
    /\ Running /\ Usable(wnd_display[wnd])
    /\ wnd_display[wnd] # NULL /\ link_used(windows, wnd)
    /\ LET l == list_remove(wnd, windows[wnd_display[wnd]])
       IN  windows' = [windows EXCEPT ![wnd_display[wnd]] =
                          list_prepend(wnd, [i \in 1..Len(l) |-> l[Len(l) + 1 - i]])]
    /\ calls' = <<>>
    /\ op' = Op("window_to_top", wnd_display[wnd], wnd, "ok")
    /\ UNCHANGED <<dispvars, clients, wmclients, seats, ddevs, cursors,
           backrefs, wndvars, gfxvars, fault>>

\* mutant: the window is unlinked and put back at the tail of the list
ds_display_window_to_top_tail(wnd) ==
    /\ Running /\ Usable(wnd_display[wnd])
    /\ wnd_display[wnd] # NULL /\ link_used(windows, wnd)
    /\ windows' = [windows EXCEPT ![wnd_display[wnd]] =
                       list_append(wnd, list_remove(wnd, @))]
    /\ calls' = <<>>
    /\ op' = Op("window_to_top", wnd_display[wnd], wnd, "ok")
    /\ UNCHANGED <<dispvars, clients, wmclients, seats, ddevs, cursors,
           backrefs, wndvars, gfxvars, fault>>

ds_display_window_to_top(wnd) ==
    /\ Running /\ Usable(wnd_display[wnd])
    /\ IF wnd_display[wnd] = NULL \/ ~link_used(windows, wnd)
       THEN Abort("window_to_top")
       ELSE LET ws == [d \in Displays |-> list_remove(wnd, windows[d])]
            IN  /\ EnlistAsserts(ws, wnd_display, wnd_display[wnd], wnd)
                /\ windows' = ds_display_enlist_window(ws, wnd_display,
                                   wnd_display[wnd], wnd)
                /\ calls' = <<>>
                /\ op' = Op("window_to_top", wnd_display[wnd], wnd, "ok")
                /\ UNCHANGED <<dispvars, clients, wmclients, seats, ddevs, cursors,
                       backrefs, wndvars, gfxvars, fault>>

(* ---- WM clients ------------------------------------------------------- *)
ds_display_add_wmclient(disp, wmclient) ==
    /\ Running /\ Live(disp) /\ Usable(wmclient_display[wmclient])
    /\ IF wmclient_display[wmclient] # NULL \/ link_used(wmclients, wmclient)
       THEN Abort("add_wmclient")
       ELSE /\ wmclient_display' = [wmclient_display EXCEPT ![wmclient] = disp]
            /\ wmclients' = [wmclients EXCEPT ![disp] = list_append(wmclient, @)]
            /\ calls' = <<>>
            /\ op' = Op("add_wmclient", disp, wmclient, "ok")
            /\ UNCHANGED <<dispvars, clients, seats, ddevs, cursors, windows,
                   client_display, seat_display, ddev_display, cursor_display,
                   wnd_display, wndvars, gfxvars, fault>>

\* mutant: the display's mutex is released on the way out
ds_display_remove_wmclient_unlocking(wmclient) ==
    /\ Running /\ Usable(wmclient_display[wmclient])
    /\ wmclients' = [d \in Displays |-> list_remove(wmclient, wmclients[d])]
    /\ wmclient_display' = [wmclient_display EXCEPT ![wmclient] = NULL]
    /\ lock' = [d \in Displays |->
                   IF d = wmclient_display[wmclient] THEN NULL ELSE lock[d]]
    /\ calls' = <<>>
    /\ op' = Op("remove_wmclient", wmclient_display[wmclient], wmclient, "ok")
    /\ UNCHANGED <<disp_mem, bg_color, flags, cursor, taskvars,
           clients, seats, ddevs, cursors, windows,
           client_display, seat_display, ddev_display, cursor_display,
           wnd_display, wndvars, gfxvars, fault>>

ds_display_remove_wmclient(wmclient) ==
    /\ Running /\ Usable(wmclient_display[wmclient])
    /\ wmclients' = [d \in Displays |-> list_remove(wmclient, wmclients[d])]
    /\ wmclient_display' = [wmclient_display EXCEPT ![wmclient] = NULL]
    /\ calls' = <<>>
    /\ op' = Op("remove_wmclient", wmclient_display[wmclient], wmclient, "ok")
    /\ UNCHANGED <<dispvars, clients, seats, ddevs, cursors, windows,
           client_display, seat_display, ddev_display, cursor_display,
           wnd_display, wndvars, gfxvars, fault>>


(* ---- display create / destroy ----------------------------------------- *)
\* the three assertions of ds_display_destroy; initialized tells whether the
\* list heads have been through list_initialize
DestroyAsserts(disp, initialized) ==
    /\ list_empty(clients[disp], initialized)
    /\ list_empty(wmclients[disp], initialized)
    /\ list_empty(seats[disp], initialized)

\* the stock cursors created by the first n rounds of the loop in create;
\* ds_cursor_create adds each to the display, at the head of disp->cursors
RECURSIVE StockList(_, _)
StockList(disp, n) ==
    IF n = 0 THEN <<>> ELSE list_prepend(StockCursor(disp, n), StockList(disp, n - 1))

\* where an allocation of create may fail: nowhere (0), in calloc (-1), in
\* gfx_color_new_rgb_i16 (-2), or in ds_cursor_create of round i (i >= 1)
CreateFails == {0, -1, -2} \cup (1..dcurs_limit)

ds_display_create(disp, fl, fail) ==
    /\ Running /\ disp_mem[disp] = "none"
    /\ calls' = <<>>
    /\ UNCHANGED <<clients, wmclients, seats, ddevs, windows,
           client_display, wmclient_display, seat_display, ddev_display,
           wnd_display, wndvars, gfxvars, taskvars>>
    /\ IF fail < 0
       THEN \* calloc failed, or the color failed and the record was freed
            /\ op' = Op("create", disp, fail, "ENOMEM")
            /\ UNCHANGED <<dispvars, cursors, cursor_display, fault>>
       ELSE IF fail > 0
       THEN \* goto error: ds_display_destroy on list heads that are still zeroed
            /\ bg_color' = [bg_color EXCEPT ![disp] = TRUE]
            /\ cursors' = [cursors EXCEPT ![disp] = StockList(disp, fail - 1)]
            /\ cursor_display' = [c \in Cursors |->
                   IF c \in Range(StockList(disp, fail - 1)) THEN disp
                   ELSE cursor_display[c]]
            /\ cursor' = [cursor EXCEPT ![disp] =
                   [i \in 1..(fail - 1) |-> StockCursor(disp, i)]]
            /\ IF DestroyAsserts(disp, FALSE)
               THEN /\ disp_mem' = [disp_mem EXCEPT ![disp] = "freed"]
                    /\ op' = Op("create", disp, fail, "ENOMEM")
                    /\ fault' = fault
               ELSE /\ disp_mem' = [disp_mem EXCEPT ![disp] = "partial"]
                    /\ op' = Op("create", disp, fail, "abort")
                    /\ fault' = "assert"
            /\ UNCHANGED <<flags, lock>>
       ELSE /\ disp_mem' = [disp_mem EXCEPT ![disp] = "live"]
            /\ bg_color' = [bg_color EXCEPT ![disp] = TRUE]
            /\ cursors' = [cursors EXCEPT ![disp] = StockList(disp, dcurs_limit)]
            /\ cursor_display' = [c \in Cursors |->
                   IF c \in Range(StockList(disp, dcurs_limit)) THEN disp
                   ELSE cursor_display[c]]
            /\ cursor' = [cursor EXCEPT ![disp] =
                   [i \in 1..dcurs_limit |-> StockCursor(disp, i)]]
            /\ lock' = [lock EXCEPT ![disp] = NULL]
            /\ flags' = [flags EXCEPT ![disp] = fl]
            /\ op' = Op("create", disp, fail, "EOK")
            /\ fault' = fault

\* mutant: the members still attached are detached and the display is freed
ds_display_destroy_force(disp) ==
    /\ Running /\ Live(disp)
    /\ bg_color' = [bg_color EXCEPT ![disp] = FALSE]
    /\ disp_mem' = [disp_mem EXCEPT ![disp] = "freed"]
    /\ clients' = [clients EXCEPT ![disp] = <<>>]
    /\ wmclients' = [wmclients EXCEPT ![disp] = <<>>]
    /\ seats' = [seats EXCEPT ![disp] = <<>>]
    /\ client_display' = [c \in Clients |->
           IF client_display[c] = disp THEN NULL ELSE client_display[c]]
    /\ wmclient_display' = [c \in WMClients |->
           IF wmclient_display[c] = disp THEN NULL ELSE wmclient_display[c]]
    /\ seat_display' = [c \in Seats |->
           IF seat_display[c] = disp THEN NULL ELSE seat_display[c]]
    /\ calls' = <<>>
    /\ op' = Op("destroy", disp, NULL, "ok")
    /\ UNCHANGED <<flags, cursor, lock, taskvars, ddevs, cursors, windows,
           ddev_display, cursor_display, wnd_display, wndvars, gfxvars, fault>>

\* the cursors are not destroyed here (XXX destroy cursors)
ds_display_destroy(disp) ==
    /\ Running /\ Live(disp)
    /\ IF ~DestroyAsserts(disp, TRUE)
       THEN Abort("destroy")
       ELSE /\ bg_color' = [bg_color EXCEPT ![disp] = FALSE]
            /\ disp_mem' = [disp_mem EXCEPT ![disp] = "freed"]
            /\ calls' = <<>>
            /\ op' = Op("destroy", disp, NULL, "ok")
            /\ UNCHANGED <<flags, cursor, lock, taskvars, lists, backrefs, wndvars,
                   gfxvars, fault>>

(* ---- clients ---------------------------------------------------------- *)
\* mutant: the client is appended without the two assertions
ds_display_add_client_unchecked(disp, client) ==
    /\ Running /\ Live(disp) /\ Usable(client_display[client])
    /\ client_display' = [client_display EXCEPT ![client] = disp]
    /\ clients' = [clients EXCEPT ![disp] = list_append(client, @)]
    /\ calls' = <<>>
    /\ op' = Op("add_client", disp, client, "ok")
    /\ UNCHANGED <<dispvars, wmclients, seats, ddevs, cursors, windows,
           wmclient_display, seat_display, ddev_display, cursor_display,
           wnd_display, wndvars, gfxvars, fault>>

ds_display_add_client(disp, client) ==
    /\ Running /\ Live(disp) /\ Usable(client_display[client])
    /\ IF client_display[client] # NULL \/ link_used(clients, client)
       THEN Abort("add_client")
       ELSE /\ client_display' = [client_display EXCEPT ![client] = disp]
            /\ clients' = [clients EXCEPT ![disp] = list_append(client, @)]
            /\ calls' = <<>>
            /\ op' = Op("add_client", disp, client, "ok")
            /\ UNCHANGED <<dispvars, wmclients, seats, ddevs, cursors, windows,
                   wmclient_display, seat_display, ddev_display, cursor_display,
                   wnd_display, wndvars, gfxvars, fault>>

ds_display_remove_client(client) ==
    /\ Running /\ Usable(client_display[client])
    /\ clients' = [d \in Displays |-> list_remove(client, clients[d])]
    /\ client_display' = [client_display EXCEPT ![client] = NULL]
    /\ calls' = <<>>
    /\ op' = Op("remove_client", client_display[client], client, "ok")
    /\ UNCHANGED <<dispvars, wmclients, seats, ddevs, cursors, windows,
           wmclient_display, seat_display, ddev_display, cursor_display,
           wnd_display, wndvars, gfxvars, fault>>

(* ---- seats ------------------------------------------------------------ *)
ds_display_add_seat(disp, seat) ==
    /\ Running /\ Live(disp) /\ Usable(seat_display[seat])
    /\ IF seat_display[seat] # NULL \/ link_used(seats, seat)
       THEN Abort("add_seat")
       ELSE /\ seat_display' = [seat_display EXCEPT ![seat] = disp]
            /\ seats' = [seats EXCEPT ![disp] = list_append(seat, @)]
            /\ calls' = <<>>
            /\ op' = Op("add_seat", disp, seat, "ok")
            /\ UNCHANGED <<dispvars, clients, wmclients, ddevs, cursors, windows,
                   client_display, wmclient_display, ddev_display, cursor_display,
                   wnd_display, wndvars, gfxvars, fault>>

\* mutant: the seat is asserted to be attached before it is unlinked
ds_display_remove_seat_checked(seat) ==
    /\ Running /\ Usable(seat_display[seat])
    /\ IF seat_display[seat] = NULL \/ ~link_used(seats, seat)
       THEN Abort("remove_seat")
       ELSE /\ seats' = [d \in Displays |-> list_remove(seat, seats[d])]
            /\ seat_display' = [seat_display EXCEPT ![seat] = NULL]
            /\ calls' = <<>>
            /\ op' = Op("remove_seat", seat_display[seat], seat, "ok")
            /\ UNCHANGED <<dispvars, clients, wmclients, ddevs, cursors, windows,
                   client_display, wmclient_display, ddev_display, cursor_display,
                   wnd_display, wndvars, gfxvars, fault>>

ds_display_remove_seat(seat) ==
    /\ Running /\ Usable(seat_display[seat])
    /\ seats' = [d \in Displays |-> list_remove(seat, seats[d])]
    /\ seat_display' = [seat_display EXCEPT ![seat] = NULL]
    /\ calls' = <<>>
    /\ op' = Op("remove_seat", seat_display[seat], seat, "ok")
    /\ UNCHANGED <<dispvars, clients, wmclients, ddevs, cursors, windows,
           client_display, wmclient_display, ddev_display, cursor_display,
           wnd_display, wndvars, gfxvars, fault>>

(* ---- cursors ---------------------------------------------------------- *)
ds_display_add_cursor(display, cur) ==
    /\ Running /\ Live(display) /\ Usable(cursor_display[cur])
    /\ IF cursor_display[cur] # NULL \/ link_used(cursors, cur)
       THEN Abort("add_cursor")
       ELSE /\ cursor_display' = [cursor_display EXCEPT ![cur] = display]
            /\ cursors' = [cursors EXCEPT ![display] = list_prepend(cur, @)]
            /\ calls' = <<>>
            /\ op' = Op("add_cursor", display, cur, "ok")
            /\ UNCHANGED <<dispvars, clients, wmclients, seats, ddevs, windows,
                   client_display, wmclient_display, seat_display, ddev_display,
                   wnd_display, wndvars, gfxvars, fault>>

ds_display_remove_cursor(cur) ==
    /\ Running /\ Usable(cursor_display[cur])
    /\ cursors' = [d \in Displays |-> list_remove(cur, cursors[d])]
    /\ cursor_display' = [cursor_display EXCEPT ![cur] = NULL]
    /\ calls' = <<>>
    /\ op' = Op("remove_cursor", cursor_display[cur], cur, "ok")
    /\ UNCHANGED <<dispvars, clients, wmclients, seats, ddevs, windows,
           client_display, wmclient_display, seat_display, ddev_display,
           wnd_display, wndvars, gfxvars, fault>>


(* ---- display devices -------------------------------------------------- *)
\* the collaborator call of ds_display_add_ddev that fails, if any
DdevFails == {"none", "clonegc", "bitmap", "alloc", "memgc", "output"}

\* the record of an operation that was given more than an entity: info is
\* the geometry the device reports (ddev->info.rect)
OpInfo(name, d, e, res, info) ==
    [name |-> name, disp |-> d, ent |-> e, res |-> res, info |-> info]

\* a call of a collaborator, with the rectangle it is given if any
Draw(fn, arg, r) == [fn |-> fn, arg |-> arg, rect |-> r]

\* ds_display_alloc_backbuf: <<result, backbuf, bbgc, dirty_rect, calls>>
\* for a display with the given flags, back buffer state and rectangle r
ds_display_alloc_backbuf(fl, bb, gc, dirty, r, fail) ==
    IF ~fl THEN <<"EOK", bb, gc, dirty, <<>>>>
    ELSE LET create == Draw("gfx_bitmap_create", "fbgc", r)
             getalloc == Draw("gfx_bitmap_get_alloc", "backbuf", <<>>)
             memgc == Draw("mem_gc_create", "backbuf", r)
         IN  \* error: the bitmap, if any, is destroyed; bbgc is left as it was
             IF fail = "bitmap" THEN <<"ENOMEM", FALSE, gc, dirty, <<create>>>>
             ELSE IF fail = "alloc"
             THEN <<"ENOMEM", FALSE, gc, dirty, <<create, getalloc>>>>
             ELSE IF fail = "memgc"
             THEN <<"ENOMEM", FALSE, gc, dirty, <<create, getalloc, memgc>>>>
             ELSE <<"EOK", TRUE, TRUE, EmptyRect, <<create, getalloc, memgc>>>>

\* r is the geometry the device reports (ddev->info.rect).
\* ds_clonegc_add_output through a null disp->fbgc is a null dereference:
\* the task is killed, or the call comes back with an error
ds_display_add_ddev(disp, ddev, r, fail) ==
    /\ Running /\ Live(disp) /\ Usable(ddev_display[ddev])
    /\ Len(fbgc[disp]) < MaxOutputs
    /\ IF ddev_display[ddev] # NULL \/ link_used(ddevs, ddev)
       THEN Abort("add_ddev")
       ELSE /\ ddev_display' = [ddev_display EXCEPT ![ddev] = disp]
            /\ UNCHANGED <<dispvars, clients, wmclients, seats, cursors, windows,
                   client_display, wmclient_display, seat_display, cursor_display,
                   wnd_display, wndvars>>
            /\ IF gfx_rect_is_empty(rect[disp])
               THEN IF fail = "clonegc"
                    THEN \* return ENOMEM: the device stays in the list
                         /\ rect' = [rect EXCEPT ![disp] = r]
                         /\ ddevs' = [ddevs EXCEPT ![disp] = list_append(ddev, @)]
                         /\ calls' = <<Draw("ds_clonegc_create", ddev, <<>>)>>
                         /\ op' = OpInfo("add_ddev", disp, ddev, "ENOMEM", r)
                         /\ UNCHANGED <<fbgc, backbuf, bbgc, dirty_rect, drawn, fault>>
                    ELSE LET bb == ds_display_alloc_backbuf(flags[disp],
                                       backbuf[disp], bbgc[disp], dirty_rect[disp],
                                       r, fail)
                         IN  /\ fbgc' = [fbgc EXCEPT ![disp] = <<ddev>>]
                             /\ backbuf' = [backbuf EXCEPT ![disp] = bb[2]]
                             /\ bbgc' = [bbgc EXCEPT ![disp] = bb[3]]
                             /\ dirty_rect' = [dirty_rect EXCEPT ![disp] = bb[4]]
                             /\ drawn' = [drawn EXCEPT ![disp] =
                                    IF flags[disp] /\ bb[1] = "EOK" THEN {} ELSE @]
                             /\ calls' = <<Draw("ds_clonegc_create", ddev, <<>>)>> \o bb[5]
                             /\ op' = OpInfo("add_ddev", disp, ddev, bb[1], r)
                             /\ fault' = fault
                             /\ IF bb[1] = "EOK"
                                THEN /\ rect' = [rect EXCEPT ![disp] = r]
                                     /\ ddevs' = [ddevs EXCEPT ![disp] =
                                            list_append(ddev, @)]
                                ELSE /\ rect' = [rect EXCEPT ![disp] = EmptyRect]
                                     /\ ddevs' = [ddevs EXCEPT ![disp] =
                                            list_remove(ddev, list_append(ddev, @))]
               ELSE /\ UNCHANGED <<backbuf, bbgc, dirty_rect, drawn>>
                    /\ calls' = <<Draw("ds_clonegc_add_output", ddev, <<>>)>>
                    /\ IF fbgc[disp] = <<>>
                       THEN \E outcome \in {"segv", "ENOMEM"} :
                               /\ fault' = IF outcome = "segv" THEN "segv" ELSE fault
                               /\ op' = OpInfo("add_ddev", disp, ddev, outcome, r)
                               /\ fbgc' = fbgc
                               /\ IF outcome = "segv"
                                  THEN /\ rect' = rect
                                       /\ ddevs' = [ddevs EXCEPT ![disp] =
                                              list_append(ddev, @)]
                                  ELSE /\ rect' = [rect EXCEPT ![disp] = EmptyRect]
                                       /\ ddevs' = [ddevs EXCEPT ![disp] =
                                              list_remove(ddev, list_append(ddev, @))]
                       ELSE IF fail = "output"
                       THEN \* error: the display rectangle is zeroed
                            /\ rect' = [rect EXCEPT ![disp] = EmptyRect]
                            /\ ddevs' = [ddevs EXCEPT ![disp] =
                                   list_remove(ddev, list_append(ddev, @))]
                            /\ op' = OpInfo("add_ddev", disp, ddev, "ENOMEM", r)
                            /\ UNCHANGED <<fbgc, fault>>
                       ELSE /\ fbgc' = [fbgc EXCEPT ![disp] = Append(@, ddev)]
                            /\ ddevs' = [ddevs EXCEPT ![disp] = list_append(ddev, @)]
                            /\ op' = OpInfo("add_ddev", disp, ddev, "EOK", r)
                            /\ UNCHANGED <<rect, fault>>

\* ds_display_get_info: info->rect = disp->rect
ds_display_get_info(rc, disp) == rc[disp]
GetInfo(disp) ==
    /\ Running /\ Live(disp)
    /\ calls' = <<>>
    /\ op' = Op("get_info", disp, NULL, ds_display_get_info(rect, disp))
    /\ UNCHANGED <<dispvars, lists, backrefs, wndvars, gfxvars, fault>>

ds_display_remove_ddev(ddev) ==
    /\ Running /\ Usable(ddev_display[ddev])
    /\ ddevs' = [d \in Displays |-> list_remove(ddev, ddevs[d])]
    /\ ddev_display' = [ddev_display EXCEPT ![ddev] = NULL]
    /\ calls' = <<>>
    /\ op' = Op("remove_ddev", ddev_display[ddev], ddev, "ok")
    /\ UNCHANGED <<dispvars, clients, wmclients, seats, cursors, windows,
           client_display, wmclient_display, seat_display, cursor_display,
           wnd_display, wndvars, gfxvars, fault>>

(* ---- rectangles ------------------------------------------------------- *)
Min(a, b) == IF a < b THEN a ELSE b
Max(a, b) == IF a > b THEN a ELSE b
\* a null gfx_rect_t pointer
NullRect == <<>>

\* gfx_rect_envelope: an empty rectangle contributes nothing
gfx_rect_envelope(a, b) ==
    IF gfx_rect_is_empty(a) THEN b
    ELSE IF gfx_rect_is_empty(b) THEN a
    ELSE <<Min(a[1], b[1]), Min(a[2], b[2]), Max(a[3], b[3]), Max(a[4], b[4])>>

\* gfx_rect_clip(r, clip): each span of r is clipped to the span of clip
gfx_rect_clip(r, clip) ==
    <<Min(Max(r[1], clip[1]), clip[3]), Min(Max(r[2], clip[2]), clip[4]),
      Max(clip[1], Min(r[3], clip[3])), Max(clip[2], Min(r[4], clip[4]))>>

\* gfx_rect_translate(offs, r)
gfx_rect_translate(offs, r) ==
    <<r[1] + offs[1], r[2] + offs[2], r[3] + offs[1], r[4] + offs[2]>>

\* gfx_pix_inside_rect: p0 is inside, p1 is outside
gfx_pix_inside_rect(pos, r) ==
    /\ r[1] <= pos[1] /\ pos[1] < r[3]
    /\ r[2] <= pos[2] /\ pos[2] < r[4]

(* ---- graphic contexts ------------------------------------------------- *)
\* a context is named by the field that holds it; "NULL" is no context
ds_display_get_unbuf_gc(display) ==
    IF fbgc[display] = <<>> THEN "NULL" ELSE "fbgc"

\* what ds_display_get_gc comes back with.  mem_gc_get_ctx of a null
\* disp->bbgc reads through a null pointer: the task is killed ("segv"), or
\* the read of page zero yields a null context
GcOutcomes(display) ==
    IF flags[display]
    THEN IF bbgc[display] THEN {"bbgc"} ELSE {"segv", "NULL"}
    ELSE {ds_display_get_unbuf_gc(display)}

\* mutant: the unbuffered context is returned whatever the flags are
ds_display_get_gc_unbuf(display) ==
    /\ Running /\ Live(display)
    /\ calls' = <<>>
    /\ op' = Op("get_gc", display, NULL, ds_display_get_unbuf_gc(display))
    /\ UNCHANGED <<dispvars, lists, backrefs, wndvars, gfxvars, fault>>

ds_display_get_gc(display) ==
    /\ Running /\ Live(display)
    /\ \E gc \in GcOutcomes(display) :
          /\ op' = Op("get_gc", display, NULL, gc)
          /\ fault' = IF gc = "segv" THEN "segv" ELSE fault
    /\ calls' = <<>>
    /\ UNCHANGED <<dispvars, lists, backrefs, wndvars, gfxvars>>

(* ---- compositor ------------------------------------------------------- *)
\* the rectangles drawn into the back buffer (what its context reports)
DrawRects == {EmptyRect, <<1, 1, 1, 3>>, <<0, 0, 2, 2>>, <<1, 1, 3, 3>>, <<2, 0, 4, 1>>}

\* mutant: the dirty rectangle becomes the rectangle drawn last
ds_display_invalidate_cb_last(disp, r) ==
    /\ Running /\ Live(disp) /\ bbgc[disp]
    /\ dirty_rect' = [dirty_rect EXCEPT ![disp] = r]
    /\ drawn' = [drawn EXCEPT ![disp] = @ \cup {r}]
    /\ calls' = <<>>
    /\ op' = Op("invalidate", disp, r, "ok")
    /\ UNCHANGED <<dispvars, lists, backrefs, wndvars, rect, fbgc, backbuf, bbgc, fault>>

\* called by the back buffer's memory context, which exists, for every
\* rectangle rendered into it
ds_display_invalidate_cb(disp, r) ==
    /\ Running /\ Live(disp) /\ bbgc[disp]
    /\ dirty_rect' = [dirty_rect EXCEPT ![disp] = gfx_rect_envelope(@, r)]
    /\ drawn' = [drawn EXCEPT ![disp] = @ \cup {r}]
    /\ calls' = <<>>
    /\ op' = Op("invalidate", disp, r, "ok")
    /\ UNCHANGED <<dispvars, lists, backrefs, wndvars, rect, fbgc, backbuf, bbgc, fault>>

\* failat tells which call of a collaborator of the operation fails
\* and with what error: <<n, rc>>, n = 0 when none fails
Errors == {"EIO", "ENOMEM"}
NoFail == <<0, "EOK">>
Call(acc, c, failat) ==
    <<IF Len(acc) + 1 = failat[1] THEN failat[2] ELSE "EOK", Append(acc, c)>>

\* mutant: the dirty rectangle is zeroed first and the render is given that
Update_late(bb, dirty, acc, failat) ==
    IF ~bb THEN <<"EOK", acc, dirty>>
    ELSE LET rc == Call(acc, Draw("gfx_bitmap_render", "backbuf", EmptyRect), failat)
         IN  IF rc[1] # "EOK" THEN <<rc[1], rc[2], dirty>>
             ELSE <<"EOK", rc[2], EmptyRect>>

\* mutant: the dirty rectangle is zeroed whether the render succeeded or not
Update_always(bb, dirty, acc, failat) ==
    IF ~bb THEN <<"EOK", acc, dirty>>
    ELSE LET rc == Call(acc, Draw("gfx_bitmap_render", "backbuf", dirty), failat)
         IN  <<rc[1], rc[2], EmptyRect>>

\* ds_display_update on a display with the given back buffer and dirty
\* rectangle: <<result, calls, dirty rectangle>>
Update(bb, dirty, acc, failat) ==
    IF ~bb THEN <<"EOK", acc, dirty>>
    ELSE LET rc == Call(acc, Draw("gfx_bitmap_render", "backbuf", dirty), failat)
         IN  IF rc[1] # "EOK" THEN <<rc[1], rc[2], dirty>>
             ELSE <<"EOK", rc[2], EmptyRect>>

\* the flush, on its own
UpdateFails == {NoFail} \cup ({1} \X Errors)
ds_display_update(disp, failat) ==
    /\ Running /\ Live(disp)
    /\ failat # NoFail => backbuf[disp]   \* the call that fails is issued
    /\ LET u == Update(backbuf[disp], dirty_rect[disp], <<>>, failat)
       IN  /\ calls' = u[2]
           /\ dirty_rect' = [dirty_rect EXCEPT ![disp] = u[3]]
           /\ drawn' = [drawn EXCEPT ![disp] =
                  IF backbuf[disp] /\ u[1] = "EOK" THEN {} ELSE @]
           /\ op' = Op("update", disp, failat, u[1])
    /\ UNCHANGED <<dispvars, lists, backrefs, wndvars, rect, fbgc, backbuf, bbgc, fault>>

\* ds_display_paint_bg with the context gc: <<result, calls>>
PaintBg(disp, r, gc, acc, failat) ==
    LET crect == IF r # NullRect THEN gfx_rect_clip(rect[disp], r) ELSE rect[disp]
    IN  IF gc = "NULL" THEN <<"EOK", acc>>
        ELSE LET sc == Call(acc, Draw("gfx_set_color", gc, NullRect), failat)
             IN  IF sc[1] # "EOK" THEN sc
                 ELSE Call(sc[2], Draw("gfx_fill_rect", gc, crect), failat)

\* while (wnd != NULL) { rc = fn(wnd, rect); ...; wnd = prev(wnd); }
RECURSIVE PaintWindows(_, _, _, _, _)
PaintWindows(fn, wnd, r, acc, failat) ==
    IF wnd = NULL THEN <<"EOK", acc>>
    ELSE LET rc == Call(acc, Draw(fn, wnd, r), failat)
         IN  IF rc[1] # "EOK" THEN rc
             ELSE PaintWindows(fn, ds_display_prev_window(windows, wnd_display, wnd),
                               r, rc[2], failat)

\* while (seat != NULL) { rc = ds_seat_paint_pointer(seat, rect); ... }
RECURSIVE PaintPointers(_, _, _, _)
PaintPointers(seat, r, acc, failat) ==
    IF seat = NULL THEN <<"EOK", acc>>
    ELSE LET rc == Call(acc, Draw("ds_seat_paint_pointer", seat, r), failat)
         IN  IF rc[1] # "EOK" THEN rc
             ELSE PaintPointers(ds_display_next_seat(seats, seat_display, seat),
                                r, rc[2], failat)

\* mutant: the windows are painted top to bottom, from the head of the list
RECURSIVE PaintWindowsDown(_, _, _, _, _)
PaintWindowsDown(fn, wnd, r, acc, failat) ==
    IF wnd = NULL THEN <<"EOK", acc>>
    ELSE LET rc == Call(acc, Draw(fn, wnd, r), failat)
         IN  IF rc[1] # "EOK" THEN rc
             ELSE PaintWindowsDown(fn, ds_display_next_window(windows, wnd_display, wnd),
                                   r, rc[2], failat)
PaintSteps_top_down(disp, r, gc, failat) ==
    LET bg == PaintBg(disp, r, gc, <<>>, failat)
    IN  IF bg[1] # "EOK" THEN bg
        ELSE LET ws == PaintWindowsDown("ds_window_paint",
                           ds_display_first_window(windows, disp), r, bg[2], failat)
             IN  IF ws[1] # "EOK" THEN ws
                 ELSE LET pv == PaintWindowsDown("ds_window_paint_preview",
                                    ds_display_first_window(windows, disp), r, ws[2], failat)
                      IN  IF pv[1] # "EOK" THEN pv
                          ELSE PaintPointers(ds_display_first_seat(seats, disp),
                                             r, pv[2], failat)

\* mutant: a failed window paint is not looked at, the painting goes on
PaintSteps_goes_on(disp, r, gc, failat) ==
    LET bg == PaintBg(disp, r, gc, <<>>, failat)
    IN  IF bg[1] # "EOK" THEN bg
        ELSE LET ws == PaintWindows("ds_window_paint",
                           ds_display_last_window(windows, disp), r, bg[2], failat)
                 pv == PaintWindows("ds_window_paint_preview",
                           ds_display_last_window(windows, disp), r, ws[2], failat)
             IN  IF pv[1] # "EOK" THEN pv
                 ELSE PaintPointers(ds_display_first_seat(seats, disp), r, pv[2], failat)

\* ds_display_paint up to the update: the background, the windows bottom
\* to top, the previews, the pointers: <<result, calls>>
PaintSteps(disp, r, gc, failat) ==
    LET bg == PaintBg(disp, r, gc, <<>>, failat)
    IN  IF bg[1] # "EOK" THEN bg
        ELSE LET ws == PaintWindows("ds_window_paint",
                           ds_display_last_window(windows, disp), r, bg[2], failat)
             IN  IF ws[1] # "EOK" THEN ws
                 ELSE LET pv == PaintWindows("ds_window_paint_preview",
                                    ds_display_last_window(windows, disp), r, ws[2], failat)
                      IN  IF pv[1] # "EOK" THEN pv
                          ELSE PaintPointers(ds_display_first_seat(seats, disp),
                                             r, pv[2], failat)

\* what the first n calls of acc render into the back buffer: the fill
\* renders its rectangle, a paint delegate renders dmg
RECURSIVE Rendered(_, _, _)
Rendered(acc, n, dmg) ==
    IF n = 0 THEN <<>>
    ELSE LET c == acc[n]
         IN  Rendered(acc, n - 1, dmg) \o
                 (IF c.fn = "gfx_set_color" THEN <<>>
                  ELSE IF c.fn = "gfx_fill_rect" THEN <<c.rect>>
                  ELSE <<dmg>>)

\* the invalidate callback run for each of the rectangles rs in turn
RECURSIVE Invalidated(_, _)
Invalidated(dirty, rs) ==
    IF rs = <<>> THEN dirty
    ELSE Invalidated(gfx_rect_envelope(dirty, Head(rs)), Tail(rs))

\* the rectangles paint is asked for (NULL: the entire display), the call of
\* the paint that fails (one of those it issues) and what the delegates render
PaintRects == {NullRect, <<1, 1, 3, 3>>}
PaintFails(disp) ==
    {NoFail} \cup ((1..(3 + 2 * Len(windows[disp]) + Len(seats[disp]))) \X Errors)
PaintDamage == {EmptyRect, <<2, 0, 4, 1>>}

ds_display_paint(disp, r, failat, dmg) ==
    /\ Running /\ Live(disp)
    /\ \E gc \in GcOutcomes(disp) :
          IF gc = "segv"
          THEN /\ fault' = "segv"
               /\ failat = NoFail /\ dmg = EmptyRect
               /\ calls' = <<>>
               /\ op' = Op("paint", disp, <<r, failat>>, "segv")
               /\ UNCHANGED <<dirty_rect, drawn>>
          ELSE \E st \in {PaintSteps(disp, r, gc, failat)} :
               \E rs \in {IF gc = "bbgc"
                          THEN Rendered(st[2], IF st[1] = "EOK" THEN Len(st[2])
                                               ELSE Len(st[2]) - 1, dmg)
                          ELSE <<>>} :
               \E u \in {IF st[1] # "EOK"
                         THEN <<st[1], st[2], Invalidated(dirty_rect[disp], rs)>>
                         ELSE Update(backbuf[disp], Invalidated(dirty_rect[disp], rs),
                                     st[2], failat)} :
                   /\ failat[1] <= Len(u[2])
                   /\ dmg # EmptyRect => (gc = "bbgc" /\ dmg \in Range(rs))
                   /\ calls' = u[2]
                   /\ dirty_rect' = [dirty_rect EXCEPT ![disp] = u[3]]
                   /\ drawn' = [drawn EXCEPT ![disp] =
                          IF backbuf[disp] /\ u[1] = "EOK" THEN {}
                          ELSE @ \cup Range(rs)]
                   /\ op' = Op("paint", disp, <<r, failat>>, u[1])
                   /\ fault' = fault
    /\ UNCHANGED <<dispvars, lists, backrefs, wndvars, rect, fbgc, backbuf, bbgc>>

(* ---- seats and input events ------------------------------------------- *)
\* input device ids (event->kbd_id, event->pos_id)
Idevs == 1..NumIdevs

\* mutant: the seat is looked up by the device id
ds_display_seat_by_idev_own(sl, disp, idev_id) ==
    IF idev_id \in 1..Len(sl[disp]) THEN sl[disp][idev_id] ELSE NULL

\* TODO Multi-seat: the device id is not looked at
ds_display_seat_by_idev(sl, disp, idev_id) ==
    ds_display_first_seat(sl, disp)

\* a caller asks for the seat of an input device
SeatByIdev(disp, idev_id) ==
    /\ Running /\ Live(disp)
    /\ calls' = <<>>
    /\ op' = Op("seat_by_idev", disp, idev_id, ds_display_seat_by_idev(seats, disp, idev_id))
    /\ UNCHANGED <<dispvars, lists, backrefs, wndvars, gfxvars, fault>>

\* the dispatch of an event to a seat, which answers rc
Post(fn, seat, idev_id, rc) == [fn |-> fn, seat |-> seat, event |-> idev_id, rc |-> rc]
SeatResults == {"EOK", "EIO"}

\* mutant: the seat's answer is dropped
ds_display_post_kbd_event_ok(display, kbd_id, rc) ==
    LET seat == ds_display_seat_by_idev(seats, display, kbd_id)
    IN  /\ Running /\ Live(display)
        /\ (seat = NULL) => rc = "EOK"
        /\ calls' = IF seat = NULL THEN <<>>
                    ELSE <<Post("ds_seat_post_kbd_event", seat, kbd_id, rc)>>
        /\ op' = Op("post_kbd_event", display, kbd_id, "EOK")
        /\ UNCHANGED <<dispvars, lists, backrefs, wndvars, gfxvars, fault>>

\* rc is what the seat's dispatch returns, if there is a seat
ds_display_post_kbd_event(display, kbd_id, rc) ==
    LET seat == ds_display_seat_by_idev(seats, display, kbd_id)
    IN  /\ Running /\ Live(display)
        /\ (seat = NULL) => rc = "EOK"
        /\ calls' = IF seat = NULL THEN <<>>
                    ELSE <<Post("ds_seat_post_kbd_event", seat, kbd_id, rc)>>
        /\ op' = Op("post_kbd_event", display, kbd_id,
                    IF seat = NULL THEN "EOK" ELSE rc)
        /\ UNCHANGED <<dispvars, lists, backrefs, wndvars, gfxvars, fault>>

ds_display_post_ptd_event(display, pos_id, rc) ==
    LET seat == ds_display_seat_by_idev(seats, display, pos_id)
    IN  /\ Running /\ Live(display)
        /\ (seat = NULL) => rc = "EOK"
        /\ calls' = IF seat = NULL THEN <<>>
                    ELSE <<Post("ds_seat_post_ptd_event", seat, pos_id, rc)>>
        /\ op' = Op("post_ptd_event", display, pos_id,
                    IF seat = NULL THEN "EOK" ELSE rc)
        /\ UNCHANGED <<dispvars, lists, backrefs, wndvars, gfxvars, fault>>

(* ---- window lookup ---------------------------------------------------- *)
\* positions on the display
Points == (0..MaxCoord) \X (0..MaxCoord)

\* the window's bounding rectangle on the display
DRect(wnd) == gfx_rect_translate(wnd_dpos[wnd], wnd_rect[wnd])

\* while (wnd != NULL): the first window from wnd on that contains pos
RECURSIVE WindowFrom(_, _, _, _)
WindowFrom(ws, wd, wnd, pos) ==
    IF wnd = NULL THEN NULL
    ELSE IF gfx_pix_inside_rect(pos, DRect(wnd)) THEN wnd
    ELSE WindowFrom(ws, wd, ds_display_next_window(ws, wd, wnd), pos)

\* mutant: the list is scanned from its tail
RECURSIVE WindowBack(_, _, _, _)
WindowBack(ws, wd, wnd, pos) ==
    IF wnd = NULL THEN NULL
    ELSE IF gfx_pix_inside_rect(pos, DRect(wnd)) THEN wnd
    ELSE WindowBack(ws, wd, ds_display_prev_window(ws, wd, wnd), pos)
\* mutant: the scan starts behind the head of the list
ds_display_window_by_pos_behind(ws, wd, display, pos) ==
    IF ds_display_first_window(ws, display) = NULL THEN NULL
    ELSE WindowFrom(ws, wd, ds_display_next_window(ws, wd,
                        ds_display_first_window(ws, display)), pos)
ds_display_window_by_pos_back(ws, wd, display, pos) ==
    WindowBack(ws, wd, ds_display_last_window(ws, display), pos)

ds_display_window_by_pos(ws, wd, display, pos) ==
    WindowFrom(ws, wd, ds_display_first_window(ws, display), pos)

\* a caller asks for the window at a position
WindowByPos(display, pos) ==
    /\ Running /\ Live(display)
    /\ calls' = <<>>
    /\ op' = Op("window_by_pos", display, pos,
                ds_display_window_by_pos(windows, wnd_display, display, pos))
    /\ UNCHANGED <<dispvars, lists, backrefs, wndvars, gfxvars, fault>>

(* ---- tasks ------------------------------------------------------------ *)
\* a task outside any operation, holding nothing
Idle_pc == [at |-> "idle", disp |-> NULL, wnd |-> NULL, wm |-> NULL, n |-> 0]
\* a task that has locked display d and is between two operations
Locked_pc(d) == [Idle_pc EXCEPT !.at = "locked", !.disp = d]
Holding(t, d) == pc[t] = Locked_pc(d)

\* fibril_mutex_lock lets task t go on when no other task holds the mutex
fibril_mutex_available(m, t) == m \in {NULL, t}

\* mutant: the mutex is not taken
ds_display_lock_free(t, disp) ==
    /\ lock' = lock
    /\ fault' = fault

\* mutant: the mutex is taken without waiting for the task that holds it
ds_display_lock_shared(t, disp) ==
    /\ lock' = [lock EXCEPT ![disp] = t]
    /\ fault' = fault

\* fibril_mutex_lock(&disp->lock) by task t: the task waits while another
\* task holds the mutex; a task that locks the mutex it holds never returns
ds_display_lock(t, disp) ==
    /\ fibril_mutex_available(lock[disp], t)
    /\ lock' = [lock EXCEPT ![disp] = t]
    /\ fault' = IF lock[disp] = t THEN "deadlock" ELSE fault

\* fibril_mutex_unlock(&disp->lock)
ds_display_unlock(t, disp) ==
    /\ lock' = [lock EXCEPT ![disp] = NULL]
    /\ fault' = fault

\* a task brackets what it does with the display by lock and unlock
TaskLock(t, d) ==
    /\ Running /\ Live(d) /\ pc[t] = Idle_pc
    /\ ds_display_lock(t, d)
    /\ pc' = [pc EXCEPT ![t] = Locked_pc(d)]
    /\ calls' = <<>>
    /\ op' = Op("lock", d, t, "ok")
    /\ UNCHANGED <<disp_mem, bg_color, flags, cursor, effects, posted,
           lists, backrefs, wndvars, gfxvars>>

TaskUnlock(t, d) ==
    /\ Running /\ Holding(t, d)
    /\ ds_display_unlock(t, d)
    /\ pc' = [pc EXCEPT ![t] = Idle_pc]
    /\ calls' = <<>>
    /\ op' = Op("unlock", d, t, "ok")
    /\ UNCHANGED <<disp_mem, bg_color, flags, cursor, effects, posted,
           lists, backrefs, wndvars, gfxvars>>

\* the position of a task in a notification loop of display d, about to
\* post the event fn of window w, effect n, to the WM client wm; past the
\* last WM client the operation returns
Loop_pc(d, fn, w, wm, n) ==
    IF wm = NULL THEN Locked_pc(d)
    ELSE [at |-> fn, disp |-> d, wnd |-> w, wm |-> wm, n |-> n]

\* ds_display_add_window by task t, up to the notification loop
AddWindowEnlist(t, d, wnd) ==
    /\ Running /\ Holding(t, d) /\ Live(d)
    /\ Len(effects) < MaxEvents
    /\ IF wnd_display[wnd] # NULL \/ link_used(windows, wnd)
       THEN Abort("add_window")
       ELSE /\ wnd_display' = [wnd_display EXCEPT ![wnd] = d]
            /\ windows' = ds_display_enlist_window(windows,
                              [wnd_display EXCEPT ![wnd] = d], d, wnd)
            /\ effects' = Append(effects, <<"wnd_added", wnd>>)
            /\ pc' = [pc EXCEPT ![t] = Loop_pc(d, "wnd_added", wnd,
                          ds_display_first_wmclient(wmclients, d), Len(effects) + 1)]
            /\ calls' = <<>>
            /\ op' = Op("add_window:enlist", d, wnd, "ok")
            /\ UNCHANGED <<disp_mem, bg_color, flags, cursor, lock, posted,
                   clients, wmclients, seats, ddevs, cursors,
                   client_display, wmclient_display, seat_display,
                   ddev_display, cursor_display, wndvars, gfxvars, fault>>

\* ds_display_remove_window by task t, up to the notification loop; the
\* window is one of the display the task has locked
RemoveWindowUnlink(t, d, wnd) ==
    /\ Running /\ Holding(t, d) /\ Live(d)
    /\ Len(effects) < MaxEvents
    /\ wnd_display[wnd] = d
    /\ windows' = [e \in Displays |-> list_remove(wnd, windows[e])]
    /\ wnd_display' = [wnd_display EXCEPT ![wnd] = NULL]
    /\ effects' = Append(effects, <<"wnd_removed", wnd>>)
    /\ pc' = [pc EXCEPT ![t] = Loop_pc(d, "wnd_removed", wnd,
                  ds_display_first_wmclient(wmclients, d), Len(effects) + 1)]
    /\ calls' = <<>>
    /\ op' = Op("remove_window:unlink", d, wnd, "ok")
    /\ UNCHANGED <<disp_mem, bg_color, flags, cursor, lock, posted,
           clients, wmclients, seats, ddevs, cursors,
           client_display, wmclient_display, seat_display,
           ddev_display, cursor_display, wndvars, gfxvars, fault>>

\* one round of a notification loop: ds_wmclient_post_wnd_added_event or
\* ds_wmclient_post_wnd_removed_event, then ds_display_next_wmclient
Notify(t) ==
    /\ Running /\ pc[t].at \in {"wnd_added", "wnd_removed"}
    /\ posted' = Append(posted, [fn |-> pc[t].at, wmclient |-> pc[t].wm,
                                 id |-> pc[t].wnd, n |-> pc[t].n])
    /\ pc' = [pc EXCEPT ![t] = Loop_pc(pc[t].disp, pc[t].at, pc[t].wnd,
                  ds_display_next_wmclient(wmclients, wmclient_display, pc[t].wm),
                  pc[t].n)]
    /\ calls' = <<PostEvent(pc[t].at, pc[t].wm, pc[t].wnd, windows, wnd_display)>>
    /\ op' = Op("notify", pc[t].disp, pc[t].wnd, "ok")
    /\ UNCHANGED <<disp_mem, bg_color, flags, cursor, lock, effects,
           lists, backrefs, wndvars, gfxvars, fault>>

\* ds_display_window_to_top by task t, up to and with list_remove
ToTopUnlink(t, d, wnd) ==
    /\ Running /\ Holding(t, d) /\ Live(d)
    /\ wnd_display[wnd] = d
    /\ IF ~link_used(windows, wnd)
       THEN Abort("window_to_top")
       ELSE /\ windows' = [e \in Displays |-> list_remove(wnd, windows[e])]
            /\ pc' = [pc EXCEPT ![t] =
                          [Locked_pc(d) EXCEPT !.at = "to_top", !.wnd = wnd]]
            /\ calls' = <<>>
            /\ op' = Op("window_to_top:unlink", d, wnd, "ok")
            /\ UNCHANGED <<disp_mem, bg_color, flags, cursor, lock, effects, posted,
                   clients, wmclients, seats, ddevs, cursors,
                   backrefs, wndvars, gfxvars, fault>>

\* the rest of ds_display_window_to_top: ds_display_enlist_window(wnd->display,
\* wnd).  A window whose display has become NULL meanwhile passes the
\* assertions of enlist and is linked through the null pointer
ToTopEnlist(t) ==
    /\ Running /\ pc[t].at = "to_top"
    /\ LET wnd == pc[t].wnd
           d == wnd_display[wnd]
       IN  IF d = NULL
           THEN /\ fault' = "segv"
                /\ op' = Op("window_to_top", NULL, wnd, "segv")
                /\ calls' = <<>>
                /\ UNCHANGED <<dispvars, lists, backrefs, wndvars, gfxvars>>
           ELSE IF ~EnlistAsserts(windows, wnd_display, d, wnd)
           THEN Abort("window_to_top")
           ELSE /\ windows' = ds_display_enlist_window(windows, wnd_display, d, wnd)
                /\ pc' = [pc EXCEPT ![t] = Locked_pc(pc[t].disp)]
                /\ calls' = <<>>
                /\ op' = Op("window_to_top", d, wnd, "ok")
                /\ UNCHANGED <<disp_mem, bg_color, flags, cursor, lock, effects,
                       posted, clients, wmclients, seats, ddevs, cursors,
                       backrefs, wndvars, gfxvars, fault>>

(* ---- specifications --------------------------------------------------- *)
\* the geometry of a window that plays no part: wnd->rect and wnd->dpos
DefaultRect == <<0, 0, 2, 2>>
Origin == <<0, 0>>

\* no display exists yet; the entities exist, attached to nothing
InitState ==
    /\ disp_mem = [d \in Displays |-> "none"]
    /\ bg_color = [d \in Displays |-> FALSE]
    /\ flags = [d \in Displays |-> FALSE]
    /\ cursor = [d \in Displays |-> <<>>]
    /\ lock = [d \in Displays |-> NULL]
    /\ pc = [t \in Tasks |-> Idle_pc]
    /\ effects = <<>>
    /\ posted = <<>>
    /\ clients = [d \in Displays |-> <<>>]
    /\ wmclients = [d \in Displays |-> <<>>]
    /\ seats = [d \in Displays |-> <<>>]
    /\ ddevs = [d \in Displays |-> <<>>]
    /\ cursors = [d \in Displays |-> <<>>]
    /\ windows = [d \in Displays |-> <<>>]
    /\ client_display = [c \in Clients |-> NULL]
    /\ wmclient_display = [c \in WMClients |-> NULL]
    /\ seat_display = [c \in Seats |-> NULL]
    /\ ddev_display = [c \in Ddevs |-> NULL]
    /\ cursor_display = [c \in Cursors |-> NULL]
    /\ wnd_display = [w \in Windows |-> NULL]
    /\ rect = [d \in Displays |-> EmptyRect]
    /\ fbgc = [d \in Displays |-> <<>>]
    /\ backbuf = [d \in Displays |-> FALSE]
    /\ bbgc = [d \in Displays |-> FALSE]
    /\ dirty_rect = [d \in Displays |-> EmptyRect]
    /\ drawn = [d \in Displays |-> {}]
    /\ calls = <<>>
    /\ op = Op("init", NULL, NULL, "ok")
    /\ fault = "none"

\* the window objects exist with their flags
Init ==
    /\ InitState
    /\ wnd_flags \in [Windows -> BOOLEAN]
    /\ wnd_rect = [w \in Windows |-> DefaultRect]
    /\ wnd_dpos = [w \in Windows |-> Origin]

\* The window registry of the display the server runs: its windows of either
\* class are added, removed and raised while WM clients come and go.
ServerDisplay == {d \in Displays : d = 1}

Next ==
    \/ \E d \in ServerDisplay : ds_display_create(d, FALSE, 0)
    \/ \E d \in ServerDisplay, w \in Windows : ds_display_add_window(d, w)
    \/ \E w \in Windows : ds_display_remove_window(w)
    \/ \E w \in Windows : ds_display_window_to_top(w)
    \/ \E d \in ServerDisplay, c \in WMClients : ds_display_add_wmclient(d, c)
    \/ \E c \in WMClients : ds_display_remove_wmclient(c)

Spec == Init /\ [][Next]_vars


\* one window, whose class plays no part
OneWindow == {w \in Windows : w = 1}
OneWMClient == {c \in WMClients : c = 1}
\* the seats that attach where their order plays no part: all but the last
LifeSeats == {c \in Seats : c < NumSeats}
\* the devices that attach where a second output plays no part
LifeDdevs == {c \in Ddevs : c < NumDdevs}

InitLife ==
    /\ Init
    /\ wnd_flags = [w \in Windows |-> FALSE]

\* The notifications of two displays: a window is added to and removed from
\* either display while the WM clients attach to and detach from either.
NextNotify ==
    \/ \E d \in Displays : ds_display_create(d, FALSE, 0)
    \/ \E d \in Displays, w \in OneWindow : ds_display_add_window(d, w)
    \/ \E w \in OneWindow : ds_display_remove_window(w)
    \/ \E w \in OneWindow : ds_display_window_to_top(w)
    \/ \E d \in Displays, c \in WMClients : ds_display_add_wmclient(d, c)
    \/ \E c \in WMClients : ds_display_remove_wmclient(c)

SpecNotify == InitLife /\ [][NextNotify]_vars

\* Attaching and detaching the members of the collections of two displays.
\* The collections are independent of one another (no attach or detach
\* reads another kind's list), so one kind of member is exercised at a time:
\* an entity is attached or detached only while the entities of every other
\* kind are detached.  The stock cursors stay with their display (nothing in
\* the display destroys them).  The displays are created single-buffered:
\* whether a device stays in the device list does not depend on the back
\* buffer.
LifeRects == {<<0, 0, 8, 6>>}
\* the failures a single-buffered display can meet
LifeFails == {"none", "clonegc", "output"}

\* no entity of the kind is attached: the lists hold nothing but the given
\* members and no back-reference of the others is set
Idle(ls, ref, keep) ==
    /\ \A d \in Displays : Range(ls[d]) \subseteq keep
    /\ \A x \in (DOMAIN ref) \ keep : ref[x] = NULL
StockCursors == Cursors \ ClientCursors
BusyKinds ==
    {k \in {"client", "wmclient", "seat", "ddev", "cursor", "window"} :
        ~ CASE k = "client" -> Idle(clients, client_display, {})
            [] k = "wmclient" -> Idle(wmclients, wmclient_display, {})
            [] k = "seat" -> Idle(seats, seat_display, {})
            [] k = "ddev" -> Idle(ddevs, ddev_display, {})
            [] k = "cursor" -> Idle(cursors, cursor_display, StockCursors)
            [] k = "window" -> Idle(windows, wnd_display, {})}
Turn(k) == BusyKinds \subseteq {k}

NextLife ==
    \/ \E d \in Displays : ds_display_create(d, FALSE, 0)
    \/ \E d \in Displays, c \in Clients : Turn("client") /\ ds_display_add_client(d, c)
    \/ \E c \in Clients : Turn("client") /\ ds_display_remove_client(c)
    \/ \E d \in Displays, c \in OneWMClient :
           Turn("wmclient") /\ ds_display_add_wmclient(d, c)
    \/ \E c \in OneWMClient : Turn("wmclient") /\ ds_display_remove_wmclient(c)
    \/ \E d \in Displays, c \in LifeSeats : Turn("seat") /\ ds_display_add_seat(d, c)
    \/ \E c \in LifeSeats : Turn("seat") /\ ds_display_remove_seat(c)
    \/ \E d \in Displays, c \in LifeDdevs, r \in LifeRects, f \in LifeFails :
           Turn("ddev") /\ ds_display_add_ddev(d, c, r, f)
    \/ \E c \in LifeDdevs : Turn("ddev") /\ ds_display_remove_ddev(c)
    \/ \E d \in Displays, c \in ClientCursors :
           Turn("cursor") /\ ds_display_add_cursor(d, c)
    \/ \E c \in ClientCursors : Turn("cursor") /\ ds_display_remove_cursor(c)
    \/ \E d \in Displays, w \in OneWindow : Turn("window") /\ ds_display_add_window(d, w)
    \/ \E w \in OneWindow : Turn("window") /\ ds_display_remove_window(w)

SpecLife == InitLife /\ [][NextLife]_vars

\* Creating and destroying displays that clients, WM clients and seats
\* attach to and detach from.
NextDestroy ==
    \/ \E d \in Displays, fl \in BOOLEAN, f \in CreateFails : ds_display_create(d, fl, f)
    \/ \E d \in Displays : ds_display_destroy(d)
    \/ \E d \in Displays, c \in Clients : ds_display_add_client(d, c)
    \/ \E c \in Clients : ds_display_remove_client(c)
    \/ \E d \in Displays, c \in WMClients : ds_display_add_wmclient(d, c)
    \/ \E c \in WMClients : ds_display_remove_wmclient(c)
    \/ \E d \in Displays, c \in LifeSeats : ds_display_add_seat(d, c)
    \/ \E c \in LifeSeats : ds_display_remove_seat(c)

SpecDestroy == InitLife /\ [][NextDestroy]_vars

\* The output side of the server's display, single- or double-buffered:
\* devices come and go, their attachment may fail at any collaborator, the
\* back buffer's context reports what is drawn, the back buffer is flushed.
NextGfx ==
    \/ \E d \in ServerDisplay, fl \in BOOLEAN : ds_display_create(d, fl, 0)
    \/ \E d \in ServerDisplay, c \in LifeDdevs, r \in Rects, f \in DdevFails :
           ds_display_add_ddev(d, c, r, f)
    \/ \E c \in LifeDdevs : ds_display_remove_ddev(c)
    \/ \E d \in ServerDisplay, r \in DrawRects : ds_display_invalidate_cb(d, r)
    \/ \E d \in ServerDisplay, f \in UpdateFails : ds_display_update(d, f)
    \/ \E d \in ServerDisplay : ds_display_get_gc(d)

SpecGfx == InitLife /\ [][NextGfx]_vars

\* Painting the server's display: windows and seats come and go, a device
\* is attached, and the display is painted with any one collaborator call
\* failing.
PaintWindowSet == {w \in Windows : w <= 2}
OneDdev == {c \in Ddevs : c = 1}
NextPaint ==
    \/ \E d \in ServerDisplay, fl \in BOOLEAN : ds_display_create(d, fl, 0)
    \/ \E d \in ServerDisplay, c \in OneDdev, r \in LifeRects :
           ds_display_add_ddev(d, c, r, "none")
    \/ \E d \in ServerDisplay, w \in PaintWindowSet : ds_display_add_window(d, w)
    \/ \E w \in PaintWindowSet : ds_display_remove_window(w)
    \/ \E d \in ServerDisplay, c \in Seats : ds_display_add_seat(d, c)
    \/ \E c \in Seats : ds_display_remove_seat(c)
    \/ \E d \in ServerDisplay, r \in PaintRects, g \in PaintDamage :
           \E f \in PaintFails(d) : ds_display_paint(d, r, f, g)
    \/ \E d \in ServerDisplay, f \in UpdateFails : ds_display_update(d, f)

SpecPaint == InitLife /\ [][NextPaint]_vars

\* Routing input events: seats attach to and detach from two displays and
\* events of any input device are posted.
NextSeat ==
    \/ \E d \in Displays : ds_display_create(d, FALSE, 0)
    \/ \E d \in Displays, c \in Seats : ds_display_add_seat(d, c)
    \/ \E c \in Seats : ds_display_remove_seat(c)
    \/ \E d \in Displays, i \in Idevs : SeatByIdev(d, i)
    \/ \E d \in Displays, i \in Idevs, rc \in SeatResults :
           ds_display_post_kbd_event(d, i, rc)
    \/ \E d \in Displays, i \in Idevs, rc \in SeatResults :
           ds_display_post_ptd_event(d, i, rc)

SpecSeat == InitLife /\ [][NextSeat]_vars

\* Looking windows up by position: the windows of either class have any of
\* a few geometries, are added, removed and raised, and any position is
\* looked up.
WindowRects == {<<0, 0, 2, 2>>, <<0, 0, 1, 3>>}
WindowPositions == {<<0, 0>>, <<1, 1>>}
\* the windows looked up, and those of them whose geometry varies
PosWindows == {w \in Windows : w <= 3}
PlacedWindows == {w \in Windows : w <= 2}

InitPos ==
    /\ InitState
    /\ wnd_flags \in [Windows -> BOOLEAN]
    /\ wnd_rect \in [Windows -> WindowRects]
    /\ wnd_dpos \in [Windows -> WindowPositions]
    /\ \A w \in Windows \ PlacedWindows :
          wnd_rect[w] = DefaultRect /\ wnd_dpos[w] = Origin
    /\ \A w \in Windows \ PosWindows : ~wnd_flags[w]

NextPos ==
    \/ \E d \in ServerDisplay : ds_display_create(d, FALSE, 0)
    \/ \E d \in ServerDisplay, w \in PosWindows : ds_display_add_window(d, w)
    \/ \E w \in PosWindows : ds_display_remove_window(w)
    \/ \E w \in PosWindows : ds_display_window_to_top(w)
    \/ \E d \in ServerDisplay, pos \in Points : WindowByPos(d, pos)

SpecPos == InitPos /\ [][NextPos]_vars

\* Attaching display devices, one after or beside another, to the server's
\* display, single- or double-buffered: any device may report any geometry,
\* any collaborator of the attachment may fail, drawing makes the back
\* buffer dirty, the display's rectangle is asked for.
AttachDraws == {<<0, 0, 2, 2>>}
NextAttach ==
    \/ \E d \in ServerDisplay, fl \in BOOLEAN : ds_display_create(d, fl, 0)
    \/ \E d \in ServerDisplay, c \in Ddevs, r \in Rects, f \in DdevFails :
           ds_display_add_ddev(d, c, r, f)
    \/ \E c \in Ddevs : ds_display_remove_ddev(c)
    \/ \E d \in ServerDisplay, r \in AttachDraws : ds_display_invalidate_cb(d, r)
    \/ \E d \in ServerDisplay : GetInfo(d)

SpecAttach == InitLife /\ [][NextAttach]_vars

\* Tasks that go through the server's display, each bracketing what it
\* does with lock and unlock: WM clients attach before the first window
\* comes, windows are added, removed and raised, the display is painted.
\* The window operations run statement by statement, so that the tasks
\* interleave wherever the mutex lets them.
TaskWindows == {w \in Windows : w <= 2}
InitTasks ==
    /\ Init
    /\ \A w \in Windows \ TaskWindows : ~wnd_flags[w]
NextTasks ==
    \/ \E d \in ServerDisplay : ds_display_create(d, FALSE, 0)
    \/ \E t \in Tasks, d \in ServerDisplay : TaskLock(t, d)
    \/ \E t \in Tasks, d \in ServerDisplay : TaskUnlock(t, d)
    \/ \E t \in Tasks, d \in ServerDisplay, c \in WMClients :
           Holding(t, d) /\ effects = <<>> /\ ds_display_add_wmclient(d, c)
    \/ \E t \in Tasks, d \in ServerDisplay, w \in TaskWindows : AddWindowEnlist(t, d, w)
    \/ \E t \in Tasks, d \in ServerDisplay, w \in TaskWindows : RemoveWindowUnlink(t, d, w)
    \/ \E t \in Tasks : Notify(t)
    \/ \E t \in Tasks, d \in ServerDisplay, w \in TaskWindows : ToTopUnlink(t, d, w)
    \/ \E t \in Tasks : ToTopEnlist(t)
    \/ \E t \in Tasks, d \in ServerDisplay :
           Holding(t, d) /\ ds_display_paint(d, NullRect, NoFail, EmptyRect)

SpecTasks == InitTasks /\ [][NextTasks]_vars

\* Every operation of the display, called by a task that holds the mutex
\* of the server's display.  As in the attaching and detaching above, the
\* entities of one kind are attached while those of the other kinds are not.
Held(d) == \E t \in Tasks : Holding(t, d)
OneIdev == {i \in Idevs : i = 1}
NextLock ==
    \/ \E d \in ServerDisplay : ds_display_create(d, FALSE, 0)
    \/ \E t \in Tasks, d \in ServerDisplay : TaskLock(t, d)
    \/ \E t \in Tasks, d \in ServerDisplay : TaskUnlock(t, d)
    \/ \E d \in ServerDisplay, c \in Clients :
           Held(d) /\ Turn("client") /\ ds_display_add_client(d, c)
    \/ \E d \in ServerDisplay, c \in Clients :
           Held(d) /\ Turn("client") /\ ds_display_remove_client(c)
    \/ \E d \in ServerDisplay, c \in OneWMClient :
           Held(d) /\ Turn("wmclient") /\ ds_display_add_wmclient(d, c)
    \/ \E d \in ServerDisplay, c \in OneWMClient :
           Held(d) /\ Turn("wmclient") /\ ds_display_remove_wmclient(c)
    \/ \E d \in ServerDisplay, c \in LifeSeats :
           Held(d) /\ Turn("seat") /\ ds_display_add_seat(d, c)
    \/ \E d \in ServerDisplay, c \in LifeSeats :
           Held(d) /\ Turn("seat") /\ ds_display_remove_seat(c)
    \/ \E d \in ServerDisplay, c \in LifeDdevs, r \in LifeRects, f \in LifeFails :
           Held(d) /\ Turn("ddev") /\ ds_display_add_ddev(d, c, r, f)
    \/ \E d \in ServerDisplay, c \in LifeDdevs :
           Held(d) /\ Turn("ddev") /\ ds_display_remove_ddev(c)
    \/ \E d \in ServerDisplay, c \in ClientCursors :
           Held(d) /\ Turn("cursor") /\ ds_display_add_cursor(d, c)
    \/ \E d \in ServerDisplay, c \in ClientCursors :
           Held(d) /\ Turn("cursor") /\ ds_display_remove_cursor(c)
    \/ \E d \in ServerDisplay, w \in OneWindow :
           Held(d) /\ Turn("window") /\ ds_display_add_window(d, w)
    \/ \E d \in ServerDisplay, w \in OneWindow :
           Held(d) /\ Turn("window") /\ wnd_display[w] = d /\ ds_display_remove_window(w)
    \/ \E d \in ServerDisplay, w \in OneWindow :
           Held(d) /\ wnd_display[w] = d /\ ds_display_window_to_top(w)
    \/ \E d \in ServerDisplay, pos \in {Origin} : Held(d) /\ WindowByPos(d, pos)
    \/ \E d \in ServerDisplay, i \in OneIdev : Held(d) /\ SeatByIdev(d, i)
    \/ \E d \in ServerDisplay, i \in OneIdev, rc \in SeatResults :
           Held(d) /\ ds_display_post_kbd_event(d, i, rc)
    \/ \E d \in ServerDisplay, i \in OneIdev, rc \in SeatResults :
           Held(d) /\ ds_display_post_ptd_event(d, i, rc)
    \/ \E d \in ServerDisplay : Held(d) /\ GetInfo(d)
    \/ \E d \in ServerDisplay : Held(d) /\ ds_display_get_gc(d)
    \/ \E d \in ServerDisplay : Held(d) /\ ds_display_update(d, NoFail)
    \/ \E d \in ServerDisplay :
           Held(d) /\ ds_display_paint(d, NullRect, NoFail, EmptyRect)

SpecLock == InitLife /\ [][NextLock]_vars

(* ======================================================================= *)
(* Properties                                                              *)
(* ======================================================================= *)
\* the operation that has just returned
Did(name, d, e) == op.name = name /\ op.disp = d /\ op.ent = e /\ op.res # "abort"
Topmost(l) == {w \in Range(l) : wnd_flags[w]}
NonTopmost(l) == {w \in Range(l) : ~wnd_flags[w]}
\* the number of positions x takes in all the lists of ls together
Positions(ls, x) ==
    Cardinality({p \in UNION {{d} \X (1..Len(ls[d])) : d \in Displays} :
                    ls[p[1]][p[2]] = x})

\* C1: in every state reached by add, remove and to_top, every topmost
\* window of a display's z-order list precedes every non-topmost one.
C1_TopmostFirst ==
    \A d \in Displays : \A i, j \in 1..Len(windows[d]) :
        (wnd_flags[windows[d][j]] /\ ~wnd_flags[windows[d][i]]) => j < i

\* a list of three windows of both classes, just reordered by to_top
C1_Witness ==
    \E d \in Displays :
        /\ Len(windows[d]) = 3
        /\ Topmost(windows[d]) # {} /\ NonTopmost(windows[d]) # {}
        /\ op.name = "window_to_top" /\ op.res = "ok" /\ op.disp = d

\* C2: from the return of add(w) until remove(w) the window w takes exactly
\* one position of the z-order list, whatever else is added, removed or
\* raised in between; after remove(w) it takes none.
C2_OnePosition ==
    [][\A w \in Windows :
          /\ (\E d \in Displays : Did("add_window", d, w)') => Positions(windows', w) = 1
          /\ (Positions(windows, w) = 1 /\ ~(op'.name = "remove_window" /\ op'.ent = w))
                => Positions(windows', w) = 1
          /\ (op'.name = "remove_window" /\ op'.ent = w) => Positions(windows', w) = 0
      ]_vars

\* w is still in place after other windows were added, and one was raised
C2_Witness ==
    \E d \in Displays, w \in Windows :
        /\ Len(windows[d]) = 3 /\ Positions(windows, w) = 1
        /\ op.name = "window_to_top" /\ op.ent # w /\ op.res = "ok"

\* C3: from the empty list, add(A) with A non-topmost and then add(B) with B
\* topmost gives front-to-back [B, A]; a further add(C) with C non-topmost
\* gives [B, C, A].
C3_AddOrder ==
    [][\A d \in Displays : \A A, B, C \in Windows :
          (~wnd_flags[A] /\ wnd_flags[B] /\ ~wnd_flags[C]) =>
              /\ (windows[d] = <<>> /\ Did("add_window", d, A)') => windows'[d] = <<A>>
              /\ (windows[d] = <<A>> /\ Did("add_window", d, B)') => windows'[d] = <<B, A>>
              /\ (windows[d] = <<B, A>> /\ Did("add_window", d, C)')
                    => windows'[d] = <<B, C, A>>
      ]_vars

C3_Witness ==
    \E d \in Displays : \E A, B, C \in Windows :
        /\ ~wnd_flags[A] /\ wnd_flags[B] /\ ~wnd_flags[C]
        /\ Did("add_window", d, C)
        /\ windows[d] = <<B, C, A>>

\* C4: after to_top(A) no window of A's class is in front of A, and the
\* topmost and the non-topmost windows of the list are the same sets as before.
C4_ToTop ==
    [][\A d \in Displays, A \in Windows :
          Did("window_to_top", d, A)' =>
              /\ A \in Range(windows'[d])
              /\ \A i \in 1..Len(windows'[d]) :
                    (i < IndexOf(windows'[d], A))
                        => wnd_flags'[windows'[d][i]] # wnd_flags'[A]
              /\ {w \in Range(windows'[d]) : wnd_flags'[w]} = Topmost(windows[d])
              /\ {w \in Range(windows'[d]) : ~wnd_flags'[w]} = NonTopmost(windows[d])
      ]_vars

\* a non-topmost window raised from behind another one, below a topmost one
C4_Witness ==
    \E d \in Displays, A \in Windows :
        /\ Did("window_to_top", d, A)
        /\ Len(windows[d]) = 3
        /\ ~wnd_flags[A] /\ IndexOf(windows[d], A) = 2
        /\ ~wnd_flags[windows[d][3]]

\* C5: add(w) sets w's back-reference, enlists w and then posts one "window
\* added" event with w's id to every WM client of the display, in the order
\* in which they were attached (a WM client is attached behind the earlier
\* ones and a detach keeps the order of the others); w is in the list when
\* each event is posted.
C5_AddNotifies ==
    [][/\ \A d \in Displays, w \in Windows :
              Did("add_window", d, w)' =>
                  /\ wnd_display'[w] = d
                  /\ w \in Range(windows'[d])
                  /\ Len(calls') = Len(wmclients[d])
                  /\ \A i \in 1..Len(calls') :
                        calls'[i] = [fn |-> "wnd_added", wmclient |-> wmclients[d][i],
                                     id |-> w, listed |-> TRUE, wdisp |-> d]
       /\ \A d \in Displays, c \in WMClients :
              /\ Did("add_wmclient", d, c)' => wmclients'[d] = Append(wmclients[d], c)
              /\ (op'.name = "remove_wmclient" /\ op'.ent = c)
                    => wmclients'[d] = Without(wmclients[d], c)
      ]_vars

C5_Witness ==
    \E d \in Displays, w \in Windows :
        /\ Did("add_window", d, w)
        /\ Len(calls) = 2 /\ calls[1].wmclient = 2 /\ calls[2].wmclient = 1

\* C6: remove(w) of a window enlisted in display D unlinks w, clears its
\* back-reference and then posts one "window removed" event with w's id to
\* every WM client attached to D.
C6_RemoveNotifies ==
    [][\A w \in Windows :
          (op'.name = "remove_window" /\ op'.ent = w /\ wnd_display[w] # NULL) =>
              /\ Positions(windows', w) = 0
              /\ wnd_display'[w] = NULL
              /\ op'.disp = wnd_display[w] /\ op'.res = "ok" /\ fault' = "none"
              /\ Len(calls') = Len(wmclients[wnd_display[w]])
              /\ \A i \in 1..Len(calls') :
                    calls'[i] = [fn |-> "wnd_removed",
                                 wmclient |-> wmclients[wnd_display[w]][i],
                                 id |-> w, listed |-> FALSE, wdisp |-> NULL]
      ]_vars

C6_Witness ==
    \E d \in Displays, w \in Windows :
        /\ Did("remove_window", d, w)
        /\ Len(calls) = 2 /\ calls[1].fn = "wnd_removed"

\* C7: remove(w) of a window that is not enlisted stops at a failed
\* precondition check: nothing is posted and no state changes.
C7_RemoveUnenlistedAborts ==
    [][\A w \in Windows :
          (op'.name = "remove_window" /\ op'.ent = w /\ ~link_used(windows, w)) =>
              /\ fault' = "assert"
              /\ calls' = <<>>
              /\ UNCHANGED <<dispvars, lists, backrefs, gfxvars>>
      ]_vars


\* C8: destroy of a display that still has a client, a WM client or a seat
\* stops at a failed assertion with nothing released and nobody detached;
\* with the three collections empty it releases the color and the record.
C8_DestroyRejected ==
    [][\A d \in Displays :
          ds_display_destroy(d) =>
              IF clients[d] # <<>> \/ wmclients[d] # <<>> \/ seats[d] # <<>>
              THEN /\ fault' = "assert"
                   /\ UNCHANGED <<dispvars, lists, backrefs, gfxvars>>
              ELSE /\ fault' = "none"
                   /\ disp_mem'[d] = "freed" /\ ~bg_color'[d]
                   /\ UNCHANGED <<lists, backrefs>>
      ]_vars

\* destroy was refused on a display that still has a client
C8_Witness ==
    /\ op.name = "destroy" /\ fault = "assert"
    /\ \E d \in Displays : Live(d) /\ bg_color[d] /\ clients[d] # <<>>

\* the entity is attached: its back-reference is set or its link is in a list
Attached(ls, ref, x) == ref[x] # NULL \/ link_used(ls, x)
\* the operation stopped at a failed assertion and changed no collection
Refused == fault' = "assert" /\ UNCHANGED <<lists, backrefs>>
\* no member occurs twice in the lists of ls, in one list or in two
NoRepeat(ls) ==
    /\ \A d \in Displays : Len(ls[d]) = Cardinality(Range(ls[d]))
    /\ \A d, e \in Displays : d # e => Range(ls[d]) \cap Range(ls[e]) = {}
\* an attach of x by the named operation has gone past its assertions
Attach(name, x) == op.name = name /\ op.ent = x /\ op.res # "abort"
AttachNames == {"add_client", "add_wmclient", "add_seat", "add_ddev",
                "add_window", "add_cursor"}

\* C9: every window, client, WM client, seat, display device and cursor is
\* in at most one display's collection, and an attach of an entity whose
\* back-reference is set or whose link is in a list stops at a failed
\* assertion that changes no collection: no attach gets past its assertions
\* with such an entity, and a stopped attach has changed nothing.  The lists
\* start empty, so it is enough that every change of a list leaves it
\* without a member that occurs twice.
C9_AttachOnce ==
    [][/\ windows' # windows => NoRepeat(windows')
       /\ clients' # clients => NoRepeat(clients')
       /\ wmclients' # wmclients => NoRepeat(wmclients')
       /\ seats' # seats => NoRepeat(seats')
       /\ ddevs' # ddevs => NoRepeat(ddevs')
       /\ cursors' # cursors => NoRepeat(cursors')
       /\ \A x \in Clients :
             Attach("add_client", x)' => ~Attached(clients, client_display, x)
       /\ \A x \in WMClients :
             Attach("add_wmclient", x)' => ~Attached(wmclients, wmclient_display, x)
       /\ \A x \in Seats :
             Attach("add_seat", x)' => ~Attached(seats, seat_display, x)
       /\ \A x \in Ddevs :
             Attach("add_ddev", x)' => ~Attached(ddevs, ddev_display, x)
       /\ \A x \in Windows :
             Attach("add_window", x)' => ~Attached(windows, wnd_display, x)
       /\ \A x \in Cursors :
             Attach("add_cursor", x)' => ~Attached(cursors, cursor_display, x)
       /\ (op'.name \in AttachNames /\ op'.res = "abort") => Refused
      ]_vars

\* a client attached to one display was passed to add_client while a
\* second display was there to attach it to
C9_Witness ==
    /\ op.name = "add_client" /\ fault = "assert"
    /\ \E x \in Clients, d \in Displays :
          client_display[x] # NULL /\ d # client_display[x] /\ Live(d)

\* a detach of x by the named operation
Detach(name, x) == op.name = name /\ op.ent = x

Detached(ls, ref, x) ==
    /\ fault' = "none"
    /\ ls' = [d \in Displays |-> Without(ls[d], x)]
    /\ ref' = [ref EXCEPT ![x] = NULL]
    /\ ~link_used(ls, x) => ls' = ls

DetachNames == {"remove_client", "remove_wmclient", "remove_seat",
                "remove_ddev", "remove_cursor"}

C11_CreateFailsClean ==
    \A d \in Displays :
        (op.name = "create" /\ op.disp = d /\ op.res # "EOK") =>
            /\ op.res = "ENOMEM"
            /\ fault = "none"
            /\ disp_mem[d] \in {"none", "freed"}
            /\ ~bg_color[d]
            /\ cursors[d] = <<>>
            /\ \A c \in Cursors : cursor_display[c] # d

(* ---- compositor properties -------------------------------------------- *)
\* a contains b; an empty b is contained in anything
Contains(a, b) ==
    \/ gfx_rect_is_empty(b)
    \/ a[1] <= b[1] /\ a[2] <= b[2] /\ b[3] <= a[3] /\ b[4] <= a[4]

Least(S) == CHOOSE x \in S : \A y \in S : x <= y
Greatest(S) == CHOOSE x \in S : \A y \in S : y <= x
NonEmptyRects(S) == {r \in S : ~gfx_rect_is_empty(r)}
\* dirty is the bounding box of the non-empty rectangles of S, an empty
\* rectangle when there is none
IsBoundingBox(dirty, S) ==
    IF NonEmptyRects(S) = {} THEN gfx_rect_is_empty(dirty)
    ELSE dirty = <<Least({r[1] : r \in NonEmptyRects(S)}),
                   Least({r[2] : r \in NonEmptyRects(S)}),
                   Greatest({r[3] : r \in NonEmptyRects(S)}),
                   Greatest({r[4] : r \in NonEmptyRects(S)})>>

\* C12: on a display with a back buffer the dirty rectangle is the bounding
\* envelope of the rectangles invalidated since the last successful flush
\* (or since the back buffer was allocated), empty rectangles contributing
\* nothing; an invalidate only grows it; a successful flush sets it to
\* (0,0)-(0,0).
C12_DirtyEnvelope ==
    [][\A d \in Displays :
          /\ backbuf'[d] => IsBoundingBox(dirty_rect'[d], drawn'[d])
          /\ (op'.name = "invalidate" /\ op'.disp = d /\ backbuf[d])
                => Contains(dirty_rect'[d], dirty_rect[d])
          /\ (op'.name = "update" /\ op'.disp = d /\ op'.res = "EOK" /\ backbuf[d])
                => dirty_rect'[d] = EmptyRect /\ drawn'[d] = {}
      ]_vars

C12_Witness ==
    \E d \in Displays :
        /\ op.name = "invalidate" /\ op.disp = d /\ backbuf[d] /\ flags[d]
        /\ Cardinality(NonEmptyRects(drawn[d])) >= 2
        /\ EmptyRect \in drawn[d]
        /\ dirty_rect[d] \notin drawn[d]

\* C13: once a device has been attached, the display holds a back buffer
\* and a memory context exactly when its double-buffered flag is set (the
\* flag never changes after create), never one without the other, and
\* neither if it was created without the flag.  Stated of the states in
\* which an attach_device has just succeeded.
C13_BackbufIffFlag ==
    \A d \in Displays :
        (op.name = "add_ddev" /\ op.disp = d /\ op.res = "EOK") =>
            /\ backbuf[d] = flags[d]
            /\ bbgc[d] = flags[d]

\* C14: get_drawing_context returns the back buffer's memory context on a
\* double-buffered display that has one, and the fan-out context (none
\* while no device has given the display one) on a display without the
\* flag; after create(flags = none) and attach_device of a device reporting
\* (0,0)-(8,6) it returns the fan-out context and there is no back buffer.
C14_GetGc ==
    \A d \in Displays :
        (op.name = "get_gc" /\ op.disp = d) =>
            /\ (flags[d] /\ bbgc[d]) => op.res = "bbgc"
            /\ ~flags[d] => op.res = (IF fbgc[d] = <<>> THEN "NULL" ELSE "fbgc")
            /\ (~flags[d] /\ ddevs[d] # <<>> /\ rect[d] = <<0, 0, 8, 6>> /\ fbgc[d] # <<>>)
                  => op.res = "fbgc" /\ ~backbuf[d] /\ ~bbgc[d]

C14_Witness ==
    \E d \in Displays :
        /\ op.name = "get_gc" /\ op.disp = d /\ op.res = "fbgc"
        /\ ~flags[d] /\ ddevs[d] # <<>> /\ rect[d] = <<0, 0, 8, 6>> /\ ~backbuf[d]

\* the calls of a paint as <<function, argument>>
Steps(cs) == [i \in 1..Len(cs) |-> <<cs[i].fn, cs[i].arg>>]
Reverse(l) == [i \in 1..Len(l) |-> l[Len(l) + 1 - i]]
\* the five steps of a paint of display d through the context gc, in order
PaintOrder(d, gc) ==
    (IF gc = "NULL" THEN <<>> ELSE <<<<"gfx_set_color", gc>>, <<"gfx_fill_rect", gc>>>>)
    \o [i \in 1..Len(windows[d]) |-> <<"ds_window_paint", Reverse(windows[d])[i]>>]
    \o [i \in 1..Len(windows[d]) |-> <<"ds_window_paint_preview", Reverse(windows[d])[i]>>]
    \o [i \in 1..Len(seats[d]) |-> <<"ds_seat_paint_pointer", seats[d][i]>>]
    \o (IF backbuf[d] THEN <<<<"gfx_bitmap_render", "backbuf">>>> ELSE <<>>)

\* C15: paint issues its calls in the order background, windows, previews,
\* pointers, flush; the first call that fails is the last call of the paint
\* and paint returns its error; a paint in which nothing fails issues them
\* all and returns success.
C15_PaintOrder ==
    [][\A d \in Displays :
          (op'.name = "paint" /\ op'.disp = d /\ op'.res # "segv") =>
              \E gc \in GcOutcomes(d) \ {"segv"} :
                  LET failat == op'.ent[2]
                  IN  IF failat = NoFail
                      THEN /\ op'.res = "EOK"
                           /\ Steps(calls') = PaintOrder(d, gc)
                      ELSE /\ op'.res = failat[2]
                           /\ failat[1] <= Len(PaintOrder(d, gc))
                           /\ Steps(calls') = SubSeq(PaintOrder(d, gc), 1, failat[1])
      ]_vars

C15_Witness ==
    \E d \in Displays :
        /\ op.name = "paint" /\ op.disp = d /\ op.res = "ENOMEM"
        /\ Len(windows[d]) = 2 /\ seats[d] # <<>> /\ backbuf[d]
        /\ calls[Len(calls)].fn = "ds_window_paint_preview"
        /\ calls[Len(calls)].arg = windows[d][2]

\* C16: a paint or a flush that fails with a draw error leaves a dirty
\* rectangle that contains what it contained before the call, and whatever
\* a paint or flush renders from the back buffer covers the damage
\* accumulated before that call.
C16_FailureKeepsDirty ==
    [][\A d \in Displays :
          (op'.name \in {"paint", "update"} /\ op'.disp = d) =>
              /\ op'.res \in Errors => Contains(dirty_rect'[d], dirty_rect[d])
              /\ \A i \in 1..Len(calls') :
                    calls'[i].fn = "gfx_bitmap_render"
                        => Contains(calls'[i].rect, dirty_rect[d])
      ]_vars

C16_Witness ==
    \E d \in Displays :
        /\ op.name = "paint" /\ op.disp = d /\ op.res \in Errors
        /\ calls[Len(calls)].fn = "gfx_bitmap_render"
        /\ ~gfx_rect_is_empty(dirty_rect[d]) /\ dirty_rect[d] = calls[Len(calls)].rect

\* C17: an attach_device that returns an error leaves the device fully
\* unattached (not in the device list, back-reference cleared) and leaves
\* no fan-out context, back buffer or memory context behind that was not
\* there before the call.
C17_AttachAllOrNothing ==
    [][\A d \in Displays, c \in Ddevs :
          (op'.name = "add_ddev" /\ op'.disp = d /\ op'.ent = c /\ op'.res = "ENOMEM") =>
              /\ c \notin Range(ddevs'[d])
              /\ ddev_display'[c] = NULL
              /\ fbgc'[d] = fbgc[d]
              /\ backbuf'[d] = backbuf[d]
              /\ bbgc'[d] = bbgc[d]
      ]_vars

(* ---- seat routing properties ------------------------------------------ *)
\* nothing of the display or its entities has changed
NoStateChange == UNCHANGED <<dispvars, lists, backrefs, wndvars, gfxvars, fault>>

\* C18: seat_for_input_device returns the head of the display's seat list,
\* or none when the list is empty, whatever the device id, and changes no
\* state; the seat list is kept in attachment order (add appends, remove
\* keeps the order of the others), so the head is the earliest-attached
\* seat that is still attached.
C18_FirstSeat ==
    [][/\ \A d \in Displays :
             (op'.name = "seat_by_idev" /\ op'.disp = d) =>
                 /\ op'.res = (IF seats[d] = <<>> THEN NULL ELSE seats[d][1])
                 /\ NoStateChange
       /\ \A d \in Displays, s \in Seats :
             /\ (op'.name = "add_seat" /\ op'.disp = d /\ op'.ent = s /\ op'.res = "ok")
                    => seats'[d] = Append(seats[d], s)
             /\ (op'.name = "remove_seat" /\ op'.ent = s)
                    => seats'[d] = SelectSeq(seats[d], LAMBDA x : x # s)
      ]_vars

C18_Witness ==
    \E d \in Displays :
        /\ op.name = "seat_by_idev" /\ op.disp = d /\ op.ent = 2
        /\ Len(seats[d]) = 2 /\ seats[d][1] = 2 /\ op.res = 2

\* the dispatch function of each post operation
PostNames == {<<"post_kbd_event", "ds_seat_post_kbd_event">>,
              <<"post_ptd_event", "ds_seat_post_ptd_event">>}

\* C19: post_keyboard_event and post_pointer_event on a display without a
\* seat return success and dispatch nothing; with a seat they dispatch the
\* event once, to the first seat of the display only, and return what that
\* dispatch returned, an error included; neither changes the display.
C19_PostToFirstSeat ==
    [][\A d \in Displays, n \in PostNames :
          (op'.name = n[1] /\ op'.disp = d) =>
              /\ NoStateChange
              /\ IF seats[d] = <<>>
                 THEN op'.res = "EOK" /\ calls' = <<>>
                 ELSE /\ Len(calls') = 1
                      /\ calls'[1].fn = n[2]
                      /\ calls'[1].seat = seats[d][1]
                      /\ calls'[1].event = op'.ent
                      /\ op'.res = calls'[1].rc
      ]_vars

C19_Witness ==
    \E d \in Displays :
        /\ op.name = "post_kbd_event" /\ op.disp = d /\ op.res = "EIO"
        /\ Len(seats[d]) = 2 /\ Len(calls) = 1 /\ calls[1].seat = seats[d][1]

(* ---- window lookup properties ----------------------------------------- *)
\* the position, taken relative to the window, lies in the window's rectangle
Covers(w, pos) ==
    /\ wnd_rect[w][1] <= pos[1] - wnd_dpos[w][1] /\ pos[1] - wnd_dpos[w][1] < wnd_rect[w][3]
    /\ wnd_rect[w][2] <= pos[2] - wnd_dpos[w][2] /\ pos[2] - wnd_dpos[w][2] < wnd_rect[w][4]
\* the places of the z-order list of d whose window covers pos
Covering(d, pos) == {i \in 1..Len(windows[d]) : Covers(windows[d][i], pos)}

\* C20: window_by_position returns the window nearest the front of the
\* z-order list whose rectangle, translated by its position, contains the
\* point, and none exactly when no enlisted window contains it; no
\* non-topmost window is returned while a topmost one contains the point.
C20_WindowByPos ==
    [][\A d \in Displays, pos \in Points :
          (op'.name = "window_by_pos" /\ op'.disp = d /\ op'.ent = pos) =>
              /\ NoStateChange
              /\ IF Covering(d, pos) = {}
                 THEN op'.res = NULL
                 ELSE /\ op'.res = windows[d][Least(Covering(d, pos))]
                      /\ \A i \in Covering(d, pos) :
                            wnd_flags[windows[d][i]] => wnd_flags[op'.res]
      ]_vars

C20_Witness ==
    \E d \in Displays :
        /\ op.name = "window_by_pos" /\ op.disp = d
        /\ Cardinality(Covering(d, op.ent)) >= 2
        /\ 1 \notin Covering(d, op.ent)
        /\ op.res # NULL /\ wnd_flags[op.res]
        /\ \E i \in Covering(d, op.ent) : ~wnd_flags[windows[d][i]]

(* ---- enlisting, by class ---------------------------------------------- *)
\* the operations that enlist a window
EnlistNames == {"add_window", "window_to_top"}

\* C22: enlisting a topmost window, by add or by to_top, puts it at the head
\* of the z-order list whatever the list held: it is in front of every other
\* window, and the other windows keep their order.
C22_TopmostAtHead ==
    [][\A d \in Displays, w \in Windows, n \in EnlistNames :
          (Did(n, d, w)' /\ wnd_flags[w]) =>
              /\ windows'[d] # <<>> /\ windows'[d][1] = w
              /\ SubSeq(windows'[d], 2, Len(windows'[d])) = Without(windows[d], w)
      ]_vars

\* a topmost window raised over another topmost one and a non-topmost one
C22_Witness ==
    \E d \in Displays, w \in Windows :
        /\ Did("window_to_top", d, w) /\ wnd_flags[w]
        /\ Len(windows[d]) = 3 /\ windows[d][1] = w
        /\ wnd_flags[windows[d][2]] /\ ~wnd_flags[windows[d][3]]

\* C23: enlisting a non-topmost window puts it right in front of the first
\* non-topmost window of the list, at the end when there is none: its index,
\* counted from 0, is the number of topmost windows of the list, and the
\* other windows keep their order.
C23_NonTopmostAfterTopmost ==
    [][\A d \in Displays, w \in Windows, n \in EnlistNames :
          (Did(n, d, w)' /\ ~wnd_flags[w]) =>
              \E i \in 1..Len(windows'[d]) :
                  /\ windows'[d][i] = w
                  /\ i - 1 = Cardinality(Topmost(Without(windows[d], w)))
                  /\ \A j \in 1..(i - 1) : wnd_flags[windows'[d][j]]
                  /\ \A j \in (i + 1)..Len(windows'[d]) : ~wnd_flags[windows'[d][j]]
                  /\ Without(windows'[d], w) = Without(windows[d], w)
      ]_vars

\* a non-topmost window added between a topmost and a non-topmost one
C23_Witness ==
    \E d \in Displays, w \in Windows :
        /\ Did("add_window", d, w) /\ ~wnd_flags[w]
        /\ Len(windows[d]) = 3 /\ windows[d][2] = w
        /\ wnd_flags[windows[d][1]] /\ ~wnd_flags[windows[d][3]]

(* ---- destroying a display --------------------------------------------- *)
\* C24: when destroy has returned, the display's background color is
\* released and no stock cursor that create made for the display is still
\* in its cursor list or still refers to it.
C24_DestroyReleasesCursors ==
    \A d \in Displays :
        (op.name = "destroy" /\ op.disp = d /\ op.res = "ok") =>
            /\ ~bg_color[d]
            /\ \A i \in 1..dcurs_limit :
                  /\ StockCursor(d, i) \notin Range(cursors[d])
                  /\ cursor_display[StockCursor(d, i)] # d

(* ---- the flush -------------------------------------------------------- *)
\* C25: a flush of a display without a back buffer issues no call, changes
\* no state and returns success.  A flush of a display with a back buffer,
\* which was created on the fan-out context, issues one render of the back
\* buffer, of exactly the dirty rectangle as it was at the call; the dirty
\* rectangle becomes empty when the render succeeded and is left alone, with
\* the render's error returned, when it failed.  Nothing else changes.
C25_Flush ==
    [][\A d \in Displays :
          (op'.name = "update" /\ op'.disp = d) =>
              IF ~backbuf[d]
              THEN calls' = <<>> /\ op'.res = "EOK" /\ NoStateChange
              ELSE /\ fbgc[d] # <<>>
                   /\ calls' = <<Draw("gfx_bitmap_render", "backbuf", dirty_rect[d])>>
                   /\ op'.res = op'.ent[2]
                   /\ dirty_rect' = [dirty_rect EXCEPT ![d] =
                          IF op'.res = "EOK" THEN EmptyRect ELSE @]
                   /\ UNCHANGED <<dispvars, lists, backrefs, wndvars,
                                  rect, fbgc, backbuf, bbgc, fault>>
      ]_vars

\* the flush after a fill of (0,0)-(2,2) through the drawing context
C25_Witness ==
    \E d \in Displays :
        /\ op.name = "update" /\ op.disp = d /\ op.res = "EOK" /\ backbuf[d]
        /\ calls = <<Draw("gfx_bitmap_render", "backbuf", <<0, 0, 2, 2>>)>>
        /\ dirty_rect[d] = EmptyRect

(* ---- the delegates of a paint ----------------------------------------- *)
\* the arguments of the calls of fn among cs, in the order of the calls
ArgsOf(cs, fn) ==
    LET sel == SelectSeq(cs, LAMBDA c : c.fn = fn)
    IN  [i \in 1..Len(sel) |-> sel[i].arg]
\* the places of the calls of fn among cs
PlacesOf(cs, fn) == {i \in 1..Len(cs) : cs[i].fn = fn}
\* every place of S comes before every place of T
Before(S, T) == \A i \in S, j \in T : i < j

\* C26: a paint that returns success has called the window paint delegate
\* once for every enlisted window, from the tail of the z-order list to its
\* head, then the preview delegate once for every window in that same
\* order, then the pointer delegate once for every attached seat in
\* attachment order; the paint ends after a number of delegate calls fixed
\* by the lengths of the two lists.
C26_DelegateOrder ==
    [][\A d \in Displays :
          (op'.name = "paint" /\ op'.disp = d /\ op'.res = "EOK") =>
              /\ ArgsOf(calls', "ds_window_paint") = Reverse(windows[d])
              /\ ArgsOf(calls', "ds_window_paint_preview") = Reverse(windows[d])
              /\ ArgsOf(calls', "ds_seat_paint_pointer") = seats[d]
              /\ Before(PlacesOf(calls', "ds_window_paint"),
                        PlacesOf(calls', "ds_window_paint_preview"))
              /\ Before(PlacesOf(calls', "ds_window_paint_preview"),
                        PlacesOf(calls', "ds_seat_paint_pointer"))
              /\ Cardinality(PlacesOf(calls', "ds_window_paint")
                     \cup PlacesOf(calls', "ds_window_paint_preview")
                     \cup PlacesOf(calls', "ds_seat_paint_pointer"))
                   = 2 * Len(windows[d]) + Len(seats[d])
      ]_vars

\* a successful paint of two windows and two seats
C26_Witness ==
    \E d \in Displays :
        /\ op.name = "paint" /\ op.disp = d /\ op.res = "EOK"
        /\ Len(windows[d]) = 2 /\ Len(seats[d]) = 2
        /\ ArgsOf(calls, "ds_window_paint") = <<windows[d][2], windows[d][1]>>
        /\ ArgsOf(calls, "ds_seat_paint_pointer") = seats[d]

(* ---- attaching devices ------------------------------------------------ *)
\* the attach of device c to display d that has just returned success
Attached_ddev(d, c) ==
    op'.name = "add_ddev" /\ op'.disp = d /\ op'.ent = c /\ op'.res = "EOK"
\* the rectangles of the back buffers the calls cs allocate
Allocated(cs) == {cs[i].rect : i \in {j \in 1..Len(cs) : cs[j].fn = "gfx_bitmap_create"}}

\* C27: a successful attach of a device while no device is attached sets
\* the display's rectangle, as get_info gives it, to the geometry the device
\* reports, makes a fan-out context whose only output is the device,
\* allocates a back buffer of the size of that rectangle if and only if the
\* display is double-buffered, and leaves the dirty rectangle empty.
C27_FirstDevice ==
    [][\A d \in Displays, c \in Ddevs :
          (Attached_ddev(d, c) /\ ddevs[d] = <<>>) =>
              /\ ds_display_get_info(rect', d) = op'.info
              /\ fbgc'[d] = <<c>>
              /\ backbuf'[d] = flags[d]
              /\ Allocated(calls') = (IF flags[d] THEN {rect'[d]} ELSE {})
              /\ dirty_rect'[d] = EmptyRect
      ]_vars

\* C28: a successful attach of a device while another device is attached
\* adds the device as one more output of the fan-out context there is and
\* leaves the display's rectangle, the back buffer, its context and the
\* dirty rectangle as they were, whatever geometry the device reports.
C28_NextDevice ==
    [][\A d \in Displays, c \in Ddevs :
          (Attached_ddev(d, c) /\ ddevs[d] # <<>>) =>
              /\ fbgc'[d] = Append(fbgc[d], c)
              /\ Allocated(calls') = {}
              /\ UNCHANGED <<rect, backbuf, bbgc, dirty_rect>>
      ]_vars

(* ---- tasks and the display mutex -------------------------------------- *)
\* the tasks that are inside an operation of display d, or between two
Inside(d) == {t \in Tasks : pc[t].disp = d}
\* the tasks that are part way through an operation of display d
Midway(d) == {t \in Inside(d) : pc[t] # Locked_pc(d)}
\* the operation steps in which a task reads or changes the window list
StepNames == {"add_window:enlist", "remove_window:unlink", "window_to_top:unlink",
              "window_to_top", "notify", "paint", "add_wmclient"}

\* C21: with every task bracketing its display operations by lock and
\* unlock, at most one task is inside the display at any time and it is the
\* holder of the mutex; whatever a task does to the display it does on a
\* state no other task is part way through changing; the z-order list keeps
\* its topmost windows first; and a paint sees every window that has been
\* added and not removed, also one that another task is raising.
C21_Serialized ==
    [][\A d \in Displays :
          /\ Cardinality(Inside(d)') <= 1
          /\ \A t \in Inside(d)' : lock'[d] = t
          /\ (op'.name \in StepNames /\ op'.disp = d)
                => \E t \in Tasks : Midway(d) \subseteq {t} /\ lock[d] = t
          /\ C1_TopmostFirst'
          /\ (op'.name = "paint" /\ op'.disp = d) =>
                Range(ArgsOf(calls', "ds_window_paint")) = {w \in Windows : wnd_display[w] = d}
      ]_vars

\* one task is raising a window while the other waits for the mutex, after
\* both have been through the display
C21_Witness ==
    \E d \in Displays, t, u \in Tasks :
        /\ pc[t].at = "to_top" /\ pc[t].disp = d /\ pc[u] = Idle_pc
        /\ op.name = "window_to_top:unlink"
        /\ Len(windows[d]) = 1 /\ wnd_flags[windows[d][1]]
        /\ Len(effects) = 2

\* the events posted to WM client c, in the order they were posted
PostedTo(c) == SelectSeq(posted, LAMBDA e : e.wmclient = c)
\* the events about window w among es
About(es, w) == SelectSeq(es, LAMBDA e : e.id = w)

\* C30: with several tasks adding and removing windows under the lock
\* discipline, every attached WM client is posted the added and removed
\* events in the order in which the additions and removals took effect on
\* the z-order list, one for each; for every enlistment of a window its
\* added event comes before its removed event; and the events of two
\* operations are never interleaved across the WM clients.
C30_NotifyOrder ==
    /\ \A d \in Displays : \A i \in 1..Len(wmclients[d]) :
          LET es == PostedTo(wmclients[d][i])
          IN  /\ Len(es) \in {Len(effects), Len(effects) - 1}
              /\ \A k \in 1..Len(es) :
                    es[k].n = k /\ <<es[k].fn, es[k].id>> = effects[k]
              /\ \A w \in Windows : \A k \in 1..Len(About(es, w)) :
                    About(es, w)[k].fn = (IF k % 2 = 1 THEN "wnd_added" ELSE "wnd_removed")
    /\ \A j, k \in 1..Len(posted) : j < k => posted[j].n <= posted[k].n

\* two WM clients have been posted the addition of one window by one task
\* and the addition of another by the other task
C30_Witness ==
    \E d \in Displays :
        /\ Len(wmclients[d]) = 2 /\ Len(posted) = 4 /\ Len(effects) = 2
        /\ effects[1][1] = "wnd_added" /\ effects[2][1] = "wnd_added"
        /\ posted[4].wmclient = wmclients[d][2]
        /\ op.name = "notify"

\* the operations that take and release the mutex
LockNames == {"lock", "unlock"}

\* C29: no operation of the display but lock and unlock takes or releases
\* the display's mutex: whatever attach, detach, registry, seat routing or
\* compositor operation a task calls while it holds the mutex, the mutex is
\* held by the same task when the operation returns, and the operation
\* neither waits for the mutex nor faults on it.
C29_LockUntouched ==
    [][op'.name \notin LockNames =>
          /\ lock' = lock
          /\ fault' # "deadlock"
          /\ \A d \in Displays :
                (op'.disp = d /\ op'.name # "create") =>
                    \E t \in Tasks : lock[d] = t /\ lock'[d] = t /\ Holding(t, d)'
      ]_vars

\* the second task has detached a WM client while it held the mutex
C29_Witness ==
    \E d \in Displays :
        /\ op.name = "remove_wmclient" /\ op.disp = d
        /\ lock[d] = 2 /\ Holding(2, d)

(* ---- the windows an operation is not about ----------------------------- *)
\* x comes before y in the list l
Precedes(l, x, y) ==
    \E i, j \in 1..Len(l) : i < j /\ l[i] = x /\ l[j] = y
WindowOpNames == {"add_window", "remove_window", "window_to_top"}

\* C31: add(w), remove(w) and to_top(w) leave the windows other than w in
\* the order they had: the other windows of every list are the same, and one
\* comes before another after the call exactly when it did before.
C31_OthersKeepOrder ==
    [][\A w \in Windows :
          (op'.name \in WindowOpNames /\ op'.ent = w) =>
              \A d \in Displays :
                  /\ Range(windows'[d]) \ {w} = Range(windows[d]) \ {w}
                  /\ \A x, y \in Windows \ {w} :
                        Precedes(windows'[d], x, y) <=> Precedes(windows[d], x, y)
      ]_vars

\* a window has been raised to the head of three windows of its class
C31_Witness ==
    \E d \in Displays, w \in Windows :
        /\ Did("window_to_top", d, w)
        /\ Len(windows[d]) = 3 /\ windows[d][1] = w
        /\ \A i \in 1..3 : wnd_flags[windows[d][i]] = wnd_flags[w]

(* ---- hit-testing and painting ------------------------------------------ *)
\* the windows in the order a paint of display d calls ds_window_paint
PaintedOrder(d) ==
    ArgsOf(PaintSteps(d, NullRect, "NULL", NoFail)[2], "ds_window_paint")
\* the places in the painting order of the windows that cover pos
PaintedOver(d, pos) ==
    {i \in 1..Len(PaintedOrder(d)) : Covers(PaintedOrder(d)[i], pos)}

\* C32: the window that window_by_position gives for a point is the window
\* that a paint of the same window list paints last among the enlisted
\* windows whose translated rectangle contains the point, and none when no
\* enlisted window contains it.
C32_HitIsPaintedLast ==
    [][\A d \in Displays, pos \in Points :
          (op'.name = "window_by_pos" /\ op'.disp = d /\ op'.ent = pos) =>
              /\ Range(PaintedOrder(d)) = Range(windows[d])
              /\ IF PaintedOver(d, pos) = {}
                 THEN op'.res = NULL
                 ELSE op'.res = PaintedOrder(d)[Greatest(PaintedOver(d, pos))]
      ]_vars

\* of three windows the two painted last contain the point
C32_Witness ==
    \E d \in Displays :
        /\ op.name = "window_by_pos" /\ op.disp = d
        /\ Len(windows[d]) = 3
        /\ PaintedOver(d, op.ent) = {2, 3}
        /\ op.res = windows[d][1]

(* ---- the branch an attach takes ----------------------------------------- *)
\* the collaborator functions the calls cs name
Called(cs) == {cs[i].fn : i \in 1..Len(cs)}
\* an attach of a device to display d has run past its assertions
Attaching(d) ==
    op'.name = "add_ddev" /\ op'.disp = d /\ op'.res # "abort"

\* C33: an attach takes the first-device branch exactly when no device is
\* attached to the display: the fan-out context and the back buffer are not
\* made again while an earlier device is attached, and a device attached
\* to a display without devices is not handed to add_output, whether the
\* attach succeeds or fails and whatever geometry the devices report.
C33_BranchByDeviceList ==
    [][\A d \in Displays :
          Attaching(d) =>
              /\ "ds_clonegc_create" \in Called(calls') <=> ddevs[d] = <<>>
              /\ ddevs[d] # <<>> =>
                     Called(calls') \cap {"ds_clonegc_create", "gfx_bitmap_create",
                                          "mem_gc_create"} = {}
              /\ ddevs[d] = <<>> => "ds_clonegc_add_output" \notin Called(calls')
      ]_vars

\* C34: an attach of a further device that fails because add_output returns
\* an error leaves the display as it was before the call: its rectangle as
\* get_info gives it, its attached devices, its fan-out context, its back
\* buffer and its dirty rectangle are unchanged.
C34_FailedNextAttach ==
    [][\A d \in Displays :
          (Attaching(d) /\ op'.res = "ENOMEM" /\ ddevs[d] # <<>>
              /\ "ds_clonegc_add_output" \in Called(calls')) =>
              /\ ds_display_get_info(rect', d) = ds_display_get_info(rect, d)
              /\ Range(ddevs'[d]) = Range(ddevs[d])
              /\ fbgc'[d] = fbgc[d]
              /\ backbuf'[d] = backbuf[d] /\ bbgc'[d] = bbgc[d]
              /\ dirty_rect'[d] = dirty_rect[d]
      ]_vars

(* ---- the outputs of the fan-out context --------------------------------- *)
\* C35: in every reachable state the outputs of a display's fan-out context
\* are the devices attached to the display: a drawing operation through the
\* fan-out context reaches the attached devices and, after a detach of a
\* device, does not reach that device any more.
C35_OutputsAreDevices ==
    \A d \in Displays : Live(d) => Range(fbgc[d]) = Range(ddevs[d])

(* ---- drawing without an output context ---------------------------------- *)
\* display d has neither a fan-out context nor a back buffer context
NoContext(d) == fbgc[d] = <<>> /\ ~bbgc[d] /\ ~backbuf[d]
BgCalls == {"gfx_set_color", "gfx_fill_rect"}

\* C36: on a display that has no output context (no device attached yet, or
\* the only attach failed), with or without the double-buffered flag,
\* get_drawing_context comes back with no context without reading through
\* an absent one, and the background step of a paint draws nothing and
\* does not fail.
C36_SafeWithoutContext ==
    [][\A d \in Displays :
          (NoContext(d) /\ op'.disp = d) =>
              /\ op'.name = "get_gc" => (op'.res = "NULL" /\ fault' = "none")
              /\ op'.name = "paint" =>
                     /\ op'.res # "segv" /\ fault' = "none"
                     /\ Called(calls') \cap BgCalls = {}
      ]_vars

(* ---- back-references and membership ------------------------------------- *)
\* the back-references ref to display d are those of the members of list l
Linked(ref, l, d) == {e \in DOMAIN ref : ref[e] = d} = Range(l[d])

\* C37: between operations a window's display back-reference is a display
\* exactly when the window is linked in that display's window list, and
\* the same holds of clients, WM clients, seats, display devices and
\* cursors, after attaches and detaches that succeeded or failed.
C37_BackrefIffLinked ==
    Running =>
        \A d \in Displays :
            /\ Linked(wnd_display, windows, d)
            /\ Linked(client_display, clients, d)
            /\ Linked(wmclient_display, wmclients, d)
            /\ Linked(seat_display, seats, d)
            /\ Linked(ddev_display, ddevs, d)
            /\ Linked(cursor_display, cursors, d)


====
